---------------------------- MODULE Spec2Model ----------------------------
(***************************************************************************)
(* Model of selenium_twitter_scraper.py: the per-company orchestration of  *)
(* main, the scroll loop of scrape_tweets and the field extraction of      *)
(* extract_tweet_data.                                                      *)
(*                                                                          *)
(* Strings whose characters matter (image locators, selector substrings)   *)
(* are tuples of one-character strings, so that lower() and the substring  *)
(* tests of the code are computed character by character.                  *)
(***************************************************************************)
EXTENDS Integers, Sequences, FiniteSets, TLC

(***************************************************************************)
(* Bounds of the model.  TWEET_LIMIT (100 in the source, line 53),          *)
(* max_scroll_attempts (30, line 117) and the length of COMPANIES (20,      *)
(* lines 29-50) are scaled down; the stall thresholds 3 and 5 are kept.     *)
(***************************************************************************)
TWEET_LIMIT == 2

max_scroll_attempts == 5

NumCompanies == 2

MaxArticles == 2

MaxImgs == 2

\* longest count text ("1.2K" has four characters)
MaxCountLen == 4

\* most elements one metric selector matches
MaxMetricElems == 2

\* most records handed to save_to_csv, most data rows of a file to merge
MaxRows == 2

\* most files the merge finds
MaxFiles == 2

\* no_new_tweets_count >= 3 : try the 'Show more' control (line 148)
ShowMoreThreshold == 3

\* no_new_tweets_count >= 5 : give up (line 158)
ExhaustionThreshold == 5

\* ids a timeline can show: one more than the ceiling, so a scan can overshoot
NumIds == TWEET_LIMIT + 1

-----------------------------------------------------------------------------
(* Character strings *)

UpperChars == <<"A","B","C","D","E","F","G","H","I","J","K","L","M",
                "N","O","P","Q","R","S","T","U","V","W","X","Y","Z">>

LowerChars == <<"a","b","c","d","e","f","g","h","i","j","k","l","m",
                "n","o","p","q","r","s","t","u","v","w","x","y","z">>

\* str.lower() on one character
LowerChar(c) ==
    IF \E i \in 1..26 : UpperChars[i] = c
    THEN LowerChars[CHOOSE i \in 1..26 : UpperChars[i] = c]
    ELSE c

\* str.lower()
Lower(s) == [i \in 1..Len(s) |-> LowerChar(s[i])]

\* sub in s
Contains(s, sub) ==
    \E i \in 1..(Len(s) - Len(sub) + 1) : SubSeq(s, i, i + Len(sub) - 1) = sub

StrProfile == <<"p","r","o","f","i","l","e">>

StrAvatar == <<"a","v","a","t","a","r">>

\* the substrings of the three media selectors (lines 279-281)
SelMediaHttps == <<"h","t","t","p","s",":","/","/","p","b","s",".","t","w","i","m","g",".","c","o","m","/","m","e","d","i","a","/">>

SelMedia == <<"p","b","s",".","t","w","i","m","g",".","c","o","m","/","m","e","d","i","a">>

-----------------------------------------------------------------------------
(* Sample image locators the rendered document may carry *)

UrlMediaA == <<"h","t","t","p","s",":","/","/","p","b","s",".","t","w","i","m","g",".","c","o","m","/","m","e","d","i","a","/","A",".","j","p","g">>

UrlMediaB == <<"h","t","t","p",":","/","/","p","b","s",".","t","w","i","m","g",".","c","o","m","/","m","e","d","i","a","/","b",".","j","p","g">>

UrlCard == <<"h","t","t","p","s",":","/","/","p","b","s",".","t","w","i","m","g",".","c","o","m","/","c","a","r","d","_","i","m","g","/","c">>

UrlMediaProfile == <<"h","t","t","p","s",":","/","/","p","b","s",".","t","w","i","m","g",".","c","o","m","/","m","e","d","i","a","/","P","r","o","f","i","l","e",".","j","p","g">>

UrlPhotoAvatar == <<"h","t","t","p","s",":","/","/","a","b","s",".","t","w","i","m","g",".","c","o","m","/","A","V","A","T","A","R",".","p","n","g">>

UrlVideoThumb == <<"h","t","t","p","s",":","/","/","p","b","s",".","t","w","i","m","g",".","c","o","m","/","e","x","t","_","t","w","_","v","i","d","e","o","_","t","h","u","m","b","/","v",".","j","p","g">>

UrlVideoProfile == <<"h","t","t","p","s",":","/","/","p","b","s",".","t","w","i","m","g",".","c","o","m","/","p","r","o","f","i","l","e","_","b","a","n","n","e","r","s","/","p",".","j","p","g">>

\* src attribute values: the sample locators and the empty string
Urls == {<<>>, UrlMediaA, UrlMediaB, UrlCard, UrlMediaProfile, UrlPhotoAvatar,
         UrlVideoThumb, UrlVideoProfile}

-----------------------------------------------------------------------------
(* The rendered document: article elements *)

\* find_element raised NoSuchElementException
NoSuchElement == "NoSuchElementException"

\* an <img> inside an article: its src, and whether it lies inside a
\* div[data-testid='tweetPhoto'] or a div[data-testid='videoPlayer']
Imgs == [src : Urls, photo : BOOLEAN, video : BOOLEAN]

\* the first a[href*='/status/'] of an article: absent, or a link whose
\* /status/ is followed by digits (digits > 0) or by no digit (digits = 0)
Hrefs == [present : BOOLEAN, digits : 0..NumIds]

Texts == {NoSuchElement, "", "a", "b"}

Times == {NoSuchElement, "2024-01-01T00:00:00.000Z"}

\* where processing the element raises: nowhere, in get_attribute of the
\* scroll loop (line 136), or at an unexpected place inside
\* extract_tweet_data
Faults == {"none", "attr", "extract"}

SeqsUpTo(S, n) == UNION {[1..k -> S] : k \in 0..n}

\* the characters a count text is made of
CountChars == {"0", "1", "2", "3", ".", "K", "M", "B", "-"}

\* element.text of the counter span: the texts of at most n characters
CountTexts(n) == SeqsUpTo(CountChars, n)

\* the span[data-testid='app-text-transition-container'] of a metric
\* element is absent, or present with its text
NoSpan == [present |-> FALSE, text |-> <<>>]

\* an element matched by a metric selector: its counter span and its
\* aria-label (<<>> when the attribute is missing or empty)
MetricElement(span, aria) == [span |-> span, aria |-> aria]

\* article.find_elements for the two selectors of each metric, when the
\* article has no metric marker at all
NoMetrics == [m \in {"reply", "retweet", "like"} |-> <<<<>>, <<>>>>]

Article(testid, fault, href, text, time, imgs) ==
    [testid |-> testid, fault |-> fault, href |-> href, text |-> text,
     time |-> time, imgs |-> imgs, metrics |-> NoMetrics]

\* the same article with the elements its metric selectors match
WithMetrics(article, ms) == [article EXCEPT !.metrics = ms]


-----------------------------------------------------------------------------
(* extract_tweet_data *)

\* the value returned for an unusable element
None == [ok |-> FALSE]

InSeq(x, s) == \E i \in 1..Len(s) : s[i] = x

\* article.find_elements(By.CSS_SELECTOR, selector) for the three media
\* selectors, in document order
MediaElements(article, k) ==
    LET Match(img) ==
            CASE k = 1 -> Contains(img.src, SelMediaHttps)
              [] k = 2 -> Contains(img.src, SelMedia)
              [] OTHER -> img.photo
    IN  SelectSeq(article.imgs, Match)

\* the test of line 286
KeepPhoto(src, photos) ==
    /\ src # <<>>
    /\ ~InSeq(src, photos)
    /\ ~Contains(Lower(src), StrProfile)
    /\ ~Contains(Lower(src), StrAvatar)

\* the test of line 294
KeepThumb(src, photos) ==
    /\ src # <<>>
    /\ ~InSeq(src, photos)

\* the loop of lines 284-287 over one selector's elements
RECURSIVE AddPhotos(_, _)
AddPhotos(photos, elems) ==
    IF elems = <<>> THEN photos
    ELSE LET src == Head(elems).src
         IN  AddPhotos(IF KeepPhoto(src, photos) THEN Append(photos, src)
                       ELSE photos,
                       Tail(elems))

\* the loop of lines 292-295
RECURSIVE AddThumbs(_, _)
AddThumbs(photos, elems) ==
    IF elems = <<>> THEN photos
    ELSE LET src == Head(elems).src
         IN  AddThumbs(IF KeepThumb(src, photos) THEN Append(photos, src)
                       ELSE photos,
                       Tail(elems))

\* lines 274-297 without the test of line 290: the thumbnails are always added
ExtractPhotosAlwaysThumbs(article) ==
    LET p1 == AddPhotos(<<>>, MediaElements(article, 1))
        p2 == AddPhotos(p1, MediaElements(article, 2))
        p3 == AddPhotos(p2, MediaElements(article, 3))
        IsVideo(img) == img.video
    IN  AddThumbs(p3, SelectSeq(article.imgs, IsVideo))

\* lines 274-297
ExtractPhotos(article) ==
    LET p1 == AddPhotos(<<>>, MediaElements(article, 1))
        p2 == AddPhotos(p1, MediaElements(article, 2))
        p3 == AddPhotos(p2, MediaElements(article, 3))
        IsVideo(img) == img.video
    IN  IF p3 = <<>>
        THEN AddThumbs(p3, SelectSeq(article.imgs, IsVideo))
        ELSE p3

\* str.isdigit() and int() on the characters of a count text
IsDigit(c) == c \in {"0", "1", "2", "3"}

DigitValue(c) ==
    CASE c = "0" -> 0 [] c = "1" -> 1 [] c = "2" -> 2 [] OTHER -> 3

IsDigits(s) == s # <<>> /\ \A i \in 1..Len(s) : IsDigit(s[i])

RECURSIVE DigitsValue(_)
DigitsValue(s) ==
    IF s = <<>> THEN 0
    ELSE DigitsValue(SubSeq(s, 1, Len(s) - 1)) * 10 + DigitValue(s[Len(s)])

RECURSIVE Pow10(_)
Pow10(n) == IF n = 0 THEN 1 ELSE 10 * Pow10(n - 1)

\* count_text.replace(c, '')
Remove(s, c) ==
    LET Other(x) == x # c
    IN  SelectSeq(s, Other)

\* float(s) for a text over CountChars: an optional sign, then digits with at
\* most one point and at least one digit; anything else raises ValueError.
\* The value is sign * mant / 10^dec.
FloatParse(s) ==
    LET neg    == s # <<>> /\ s[1] = "-"
        body   == IF neg THEN Tail(s) ELSE s
        points == {i \in 1..Len(body) : body[i] = "."}
        digits == SelectSeq(body, IsDigit)
        ok     == /\ \A i \in 1..Len(body) : IsDigit(body[i]) \/ body[i] = "."
                  /\ Cardinality(points) <= 1
                  /\ digits # <<>>
    IN  IF ~ok THEN [ok |-> FALSE]
        ELSE [ok   |-> TRUE,
              neg  |-> neg,
              mant |-> DigitsValue(digits),
              dec  |-> IF points = {} THEN 0
                       ELSE Len(body) - (CHOOSE i \in points : TRUE)]

\* a count: the number n * times, with times 1, 1000 or 1000000 (Python
\* numbers do not overflow; n stays small); zero is written Count(0, 1)
Count(n, times) == [n |-> n, times |-> IF n = 0 THEN 1 ELSE times]

Zero == Count(0, 1)

\* count > 0 (line 267)
Positive(count) == count.n > 0

\* float(count_text.replace(suffix, '')) * mult (lines 254, 256, 258), mult
\* being 1000 * times; the product with 1000 is a whole number when the text
\* has at most three decimals, as every text of at most five characters has
Scaled(count_text, suffix, times) ==
    LET f == FloatParse(Remove(count_text, suffix))
    IN  IF ~f.ok THEN [raised |-> TRUE]
        ELSE [raised |-> FALSE,
              count  |-> LET v == (f.mant * 1000) \div Pow10(f.dec)
                         IN  Count(IF f.neg THEN 0 - v ELSE v, times)]

\* lines 253-260 with every suffix taken for a thousand
ConvertCountThousands(count_text) ==
    IF InSeq("K", count_text) THEN Scaled(count_text, "K", 1)
    ELSE IF InSeq("M", count_text) THEN Scaled(count_text, "M", 1)
    ELSE IF InSeq("B", count_text) THEN Scaled(count_text, "B", 1)
    ELSE [raised |-> FALSE,
          count  |-> IF IsDigits(count_text)
                     THEN Count(DigitsValue(count_text), 1) ELSE Zero]

\* lines 253-260: the conversion of a non-empty count text; raised when
\* float() raises ValueError
ConvertCount(count_text) ==
    IF InSeq("K", count_text) THEN Scaled(count_text, "K", 1)
    ELSE IF InSeq("M", count_text) THEN Scaled(count_text, "M", 1000)
    ELSE IF InSeq("B", count_text) THEN Scaled(count_text, "B", 1000000)
    ELSE [raised |-> FALSE,
          count  |-> IF IsDigits(count_text)
                     THEN Count(DigitsValue(count_text), 1) ELSE Zero]

\* re.search(r'(\d+(?:\.\d+)?[KMB]?)', aria_label) (lines 247-249): the
\* leftmost, longest match, <<>> when there is none
AriaCount(label) ==
    LET starts == {i \in 1..Len(label) : IsDigit(label[i])}
    IN  IF starts = {} THEN <<>>
        ELSE LET b  == CHOOSE i \in starts : \A j \in starts : i <= j
                 \* last index of the run of digits starting at i
                 RunEnd(i) ==
                     CHOOSE e \in i..Len(label) :
                        /\ \A k \in i..e : IsDigit(label[k])
                        /\ (e = Len(label) \/ ~IsDigit(label[e + 1]))
                 e1 == RunEnd(b)
                 e2 == IF /\ e1 + 2 <= Len(label)
                          /\ label[e1 + 1] = "."
                          /\ IsDigit(label[e1 + 2])
                       THEN RunEnd(e1 + 2) ELSE e1
                 e3 == IF e2 + 1 <= Len(label)
                          /\ label[e2 + 1] \in {"K", "M", "B"}
                       THEN e2 + 1 ELSE e2
             IN  SubSeq(label, b, e3)

\* lines 235-249: the count text of one metric element
CountText(element) ==
    LET method1 == IF element.span.present THEN element.span.text ELSE <<>>
    IN  IF method1 = <<>> /\ element.aria # <<>>
        THEN AriaCount(element.aria)
        ELSE method1

\* lines 232-265: the elements one selector matched, from the value the
\* metric has so far; an element without count text, or whose conversion
\* raises, is passed over
RECURSIVE ScanMetricElements(_, _)
ScanMetricElements(elements, value) ==
    IF elements = <<>> THEN value
    ELSE LET count_text == CountText(Head(elements))
             c == IF count_text = <<>> THEN [raised |-> TRUE]
                  ELSE ConvertCount(count_text)
         IN  IF c.raised THEN ScanMetricElements(Tail(elements), value)
             ELSE c.count                        \* lines 262-263

\* lines 229-270: the selectors of one metric in the listed order; the first
\* that leaves a value > 0 ends the search (lines 267-268)
RECURSIVE ScanMetricSelectors(_, _)
ScanMetricSelectors(selector_list, value) ==
    IF selector_list = <<>> THEN value
    ELSE LET v == ScanMetricElements(Head(selector_list), value)
         IN  IF Positive(v) THEN v
             ELSE ScanMetricSelectors(Tail(selector_list), v)

\* the value of one metric: 0 to start with (line 221)
Metric(article, name) == ScanMetricSelectors(article.metrics[name], Zero)

\* lines 199-200: the article has a link whose href matches /status/(\d+)
HasId(article) == article.href.present /\ article.href.digits # 0

\* line 200: the digits after /status/
TweetId(article) == article.href.digits

\* lines 209-211 returning None: a post without text marker is dropped
extract_tweet_data_TextRequired(article) ==
    IF article.fault = "extract" THEN None
    ELSE IF ~HasId(article) THEN None
    ELSE IF article.text = NoSuchElement THEN None
    ELSE [ok        |-> TRUE,
          id        |-> TweetId(article),
          text      |-> article.text,
          timestamp |-> IF article.time = NoSuchElement THEN "" ELSE article.time,
          replies   |-> Metric(article, "reply"),
          retweets  |-> Metric(article, "retweet"),
          likes     |-> Metric(article, "like"),
          photos    |-> ExtractPhotos(article)]

\* lines 194-312
extract_tweet_data(article) ==
    IF article.fault = "extract" THEN None
    ELSE IF ~HasId(article) THEN None
    ELSE [ok        |-> TRUE,
          id        |-> TweetId(article),
          text      |-> IF article.text = NoSuchElement THEN "" ELSE article.text,
          timestamp |-> IF article.time = NoSuchElement THEN "" ELSE article.time,
          replies   |-> Metric(article, "reply"),
          retweets  |-> Metric(article, "retweet"),
          likes     |-> Metric(article, "like"),
          photos    |-> ExtractPhotos(article)]

-----------------------------------------------------------------------------
(* State *)

VARIABLES
    pc,                  \* position of main / scrape_tweets / the extraction run
    ci,                  \* index into COMPANIES of the company being processed
    driver,              \* main's driver: 0 is None, else the browser instance
    live,                \* browser instances started and not yet quit
    err,                 \* the exception main's handler caught ("" if none)
    tweets,              \* main's tweets: what scrape_tweets returned
    summary,             \* data rows of the summary CSV
    files,               \* per-company CSV files written
    wait_result,         \* how the initial WebDriverWait ended (line 106)
    tweets_data,         \* scrape_tweets locals
    articles,            \* the elements of the scan in progress (line 130);
                         \* dead after the for loop and kept empty then
    prev_articles,       \* history: the previous cycle's scan, where recorded
    repeats,             \* history: consecutive scans that found the same set
                         \* of elements as the scan before, where recorded
    tweets_before,
    last_height,
    scroll_attempts,
    no_new_tweets_count,
    same_count,          \* measurements of this cycle found equal to last_height
    issued,              \* accessor commands issued by this scrape_tweets call
    commands,            \* history: the accessor commands and pauses of the
                         \* cycle in progress, in the order of their calls
    scans_started,       \* history: the calls of find_elements (line 130)
                         \* this scrape_tweets call has made
    xin,                 \* the argument of a function that runs on its own:
                         \* the element handed to extract_tweet_data, the
                         \* records handed to save_to_csv, the files
                         \* merge_csv_files finds, the classified images
                         \* of the post handed to process_tweet
    xout                 \* and its result: the record returned, the file
                         \* written (with, as history, what download_image
                         \* returned for each image)

mainVars == <<ci, driver, live, err, tweets, summary, files>>

scrapeVars == <<wait_result, tweets_data, articles, prev_articles, repeats,
                tweets_before, last_height,
                scroll_attempts, no_new_tweets_count, same_count, issued,
                commands, scans_started>>

extractVars == <<xin, xout>>

vars == <<pc, mainVars, scrapeVars, extractVars>>

\* the values document.body.scrollHeight may return: the loop only compares
\* a measurement with last_height, so two distinct heights give every case
Heights == {"h1", "h2"}

Ids(td) == {td[i].id : i \in 1..Len(td)}

Range(s) == {s[i] : i \in 1..Len(s)}

-----------------------------------------------------------------------------
(* The elements a scan of the timeline may return *)

PhotoImg(src) == [src |-> src, photo |-> TRUE, video |-> FALSE]

\* a rendered post with a permalink .../status/<id>
TweetArticle(id, text, imgs) ==
    Article("tweet", "none", [present |-> TRUE, digits |-> id], text,
            "2024-01-01T00:00:00.000Z", imgs)

\* an article that is no post (data-testid is not "tweet")
OtherArticle ==
    [TweetArticle(1, "b", <<>>) EXCEPT !.testid = "other"]

\* a post detached from the document: get_attribute raises
StaleArticle ==
    [TweetArticle(NumIds, "a", <<>>) EXCEPT !.fault = "attr"]

\* a post on which extract_tweet_data hits an unexpected exception
BrokenArticle ==
    [TweetArticle(NumIds, "a", <<>>) EXCEPT !.fault = "extract"]

\* a short locator, matched by the tweetPhoto selector only
UrlShort == <<"u">>

\* posts: id 1 is shown with two different texts, odd ids carry a photo
Posts ==
    {TweetArticle(i, "a", IF i % 2 = 1 THEN <<PhotoImg(UrlShort)>> ELSE <<>>) :
        i \in 1..NumIds}
    \cup {TweetArticle(1, "b", <<>>)}

\* driver.find_elements(By.CSS_SELECTOR, "article") (line 130)
Scans == SeqsUpTo(Posts \cup {OtherArticle, StaleArticle, BrokenArticle},
                  MaxArticles)

\* a timeline of posts without media and a detached element
PlainScans ==
    SeqsUpTo({TweetArticle(i, "a", <<>>) : i \in 1..NumIds}
                \cup {StaleArticle}, MaxArticles)

\* a post without a[href*='/status/'] (find_element raises, line 199)
NoLinkArticle ==
    Article("tweet", "none", [present |-> FALSE, digits |-> 0], "a",
            "2024-01-01T00:00:00.000Z", <<>>)

\* a post whose link has no digit after /status/ (re.search gives None)
NoDigitsArticle ==
    Article("tweet", "none", [present |-> TRUE, digits |-> 0], "a",
            "2024-01-01T00:00:00.000Z", <<>>)

\* a post with a permalink and nothing else: no text marker, no time
\* element, no metric element, no image
BareArticle ==
    Article("tweet", "none", [present |-> TRUE, digits |-> 2], NoSuchElement,
            NoSuchElement, <<>>)

\* a timeline with posts that lack the permalink or everything but it
SparseScans ==
    SeqsUpTo({TweetArticle(1, "a", <<>>), NoLinkArticle, NoDigitsArticle,
              BareArticle}, MaxArticles)

\* a timeline of two posts and a detached element: the scans whose history
\* is recorded
RescanScans ==
    SeqsUpTo({TweetArticle(1, "a", <<PhotoImg(UrlShort)>>),
              TweetArticle(2, "a", <<>>), StaleArticle}, MaxArticles)

\* the scans offered while main runs all companies: at most one element
MainScans ==
    {<<>>} \cup {<<a>> : a \in {TweetArticle(1, "a", <<PhotoImg(UrlShort)>>),
                               TweetArticle(2, "a", <<>>), StaleArticle}}

-----------------------------------------------------------------------------
(* scrape_tweets *)

\* line 138 without the test on the ids already collected
ProcessArticleNoDedup(article, td) ==
    IF article.fault = "attr" THEN td
    ELSE IF article.testid # "tweet" THEN td
    ELSE LET tweet == extract_tweet_data(article)
         IN  IF tweet.ok THEN Append(td, tweet) ELSE td

\* line 139 inserting at the front instead of appending
ProcessArticlePrepend(article, td) ==
    IF article.fault = "attr" THEN td
    ELSE IF article.testid # "tweet" THEN td
    ELSE LET tweet == extract_tweet_data(article)
         IN  IF tweet.ok /\ tweet.id \notin Ids(td)
             THEN <<tweet>> \o td
             ELSE td

\* line 138 with the stored record replaced when its id is seen again
ProcessArticleUpdate(article, td) ==
    IF article.fault = "attr" THEN td
    ELSE IF article.testid # "tweet" THEN td
    ELSE LET tweet == extract_tweet_data(article)
         IN  IF ~tweet.ok THEN td
             ELSE IF tweet.id \notin Ids(td) THEN Append(td, tweet)
             ELSE [i \in 1..Len(td) |->
                      IF td[i].id = tweet.id THEN tweet ELSE td[i]]

\* lines 135-143: one element of the for loop, with its try/except
ProcessArticle(article, td) ==
    IF article.fault = "attr" THEN td
    ELSE IF article.testid # "tweet" THEN td
    ELSE LET tweet == extract_tweet_data(article)
         IN  IF tweet.ok /\ tweet.id \notin Ids(td)
             THEN Append(td, tweet)
             ELSE td

\* the try of line 135 placed around the whole for loop: the first element
\* that raises ends the scan
RECURSIVE ProcessArticlesAbortOnFault(_, _)
ProcessArticlesAbortOnFault(arts, td) ==
    IF arts = <<>> THEN td
    ELSE IF Head(arts).fault = "attr" THEN td
    ELSE ProcessArticlesAbortOnFault(Tail(arts), ProcessArticle(Head(arts), td))

\* lines 134-143: the for loop
RECURSIVE ProcessArticles(_, _)
ProcessArticles(arts, td) ==
    IF arts = <<>> THEN td
    ELSE ProcessArticles(Tail(arts), ProcessArticle(Head(arts), td))

\* line 120 with <= in place of < on the scroll counter
LoopConditionOffByOne ==
    Len(tweets_data) < TWEET_LIMIT /\ scroll_attempts <= max_scroll_attempts

\* the while condition of line 120
LoopCondition ==
    Len(tweets_data) < TWEET_LIMIT /\ scroll_attempts < max_scroll_attempts

\* lines 124-130 without the scroll: the scan reads the page as it stands
ScanCommandsNoScroll ==
    <<"find_articles">>

\* lines 124-130: scroll to the bottom, let the page settle for 1.5 scroll
\* pauses, query the rendered articles
ScanCommands ==
    <<"scroll_bottom", "sleep_1.5", "find_articles">>

\* lines 151-154: look for the 'Show more' control, click it, wait 2 pauses
ShowMoreCommands ==
    <<"find_show_more", "click", "sleep_2">>

\* lines 165-177 with the third measurement taken right after the second
HeightCommandsNoOscillation(n) ==
    SubSeq(<<"height", "sleep_2", "height", "height">>, 1,
           IF n = 1 THEN 1 ELSE n + 1)

\* lines 165-177: the calls made by a cycle that measures the height n
\* times; a wait of 2 pauses precedes the second measurement, a scroll to
\* 80% of the height and back to the bottom precedes the third
HeightCommands(n) ==
    SubSeq(<<"height",
             "sleep_2", "height",
             "scroll_80", "sleep_1", "scroll_bottom", "sleep_1", "height">>,
           1, CASE n = 1 -> 1 [] n = 2 -> 3 [] OTHER -> 8)

\* the measurements of document.body.scrollHeight one cycle may make
\* (lines 165, 169, 177): the second is made only if the first equals
\* last_height, the third only if the second does too
Measurements(last) ==
    {<<h>> : h \in Heights \ {last}}
    \cup {<<last, h>> : h \in Heights \ {last}}
    \cup {<<last, last, h>> : h \in Heights}

\* the break of line 180 taken as soon as the first measurement is unchanged
EndOfPageFirstMeasurement(last, m) ==
    m[1] = last

\* lines 166-180: TRUE when the measurements make the loop break
EndOfPage(last, m) ==
    Len(m) = 3 /\ m[1] = last /\ m[2] = last /\ m[3] = last

\* how many of the measurements made in one cycle equalled last_height
SameCount(last, m) ==
    Cardinality({i \in 1..Len(m) : m[i] = last})

\* return tweets_data (lines 111, 191): main's tweets is assigned
Return(td) ==
    /\ pc' = "persist"
    /\ tweets' = td
    /\ UNCHANGED <<ci, driver, live, err, summary, files>>

\* an accessor call raises inside scrape_tweets: the exception leaves the
\* function and reaches main's handler (line 544)
Raise(reason) ==
    /\ pc' = "except"
    /\ err' = reason
    /\ UNCHANGED <<ci, driver, live, tweets, summary, files>>

\* lines 113-118: the locals are initialised and the loop is entered
EnterLoop ==
    /\ \E h \in Heights : last_height' = h     \* line 115
    /\ tweets_data' = <<>>
    /\ scroll_attempts' = 0
    /\ no_new_tweets_count' = 0
    /\ pc' = "loop"
    /\ UNCHANGED <<mainVars, articles, prev_articles, repeats, tweets_before,
                   same_count, issued, commands, scans_started>>

\* the timeout swallowed: the function goes on into the scroll loop
LoadTimeoutContinues ==
    EnterLoop

\* lines 109-111: the wait timed out
LoadTimeout ==
    /\ Return(<<>>)
    /\ UNCHANGED <<tweets_data, articles, prev_articles, repeats, tweets_before,
                   last_height, scroll_attempts, no_new_tweets_count,
                   same_count, issued, commands, scans_started>>

\* lines 100-118: navigate, wait for the first article, initialise the locals
Load ==
    /\ pc = "scrape"
    /\ \/ /\ Raise("scrape")                     \* driver.get raises
          /\ UNCHANGED scrapeVars
       \/ /\ wait_result' = "timeout"
          /\ LoadTimeout
       \/ /\ wait_result' = "found"
          /\ EnterLoop
    /\ UNCHANGED extractVars

\* line 120 false: the loop ends and the function returns (lines 190-191)
LoopExit ==
    /\ pc = "loop"
    /\ ~LoopCondition
    /\ Return(tweets_data)
    /\ UNCHANGED <<scrapeVars, extractVars>>

\* lines 120-143: one scroll and one scan of the rendered articles
ScrollAndScan(scans, record) ==
    /\ pc = "loop"
    /\ LoopCondition
    /\ scroll_attempts' = scroll_attempts + 1
    /\ \/ /\ Raise("scrape")                     \* scrollTo or find_elements raises
          /\ issued' = issued \cup {"scroll"}
          /\ \E k \in {1, Len(ScanCommands)} :
                /\ commands' = SubSeq(ScanCommands, 1, k)
                /\ scans_started' = IF k = Len(ScanCommands)
                                    THEN scans_started + 1 ELSE scans_started
          /\ UNCHANGED <<tweets_data, articles, prev_articles, repeats, tweets_before,
                         same_count>>
       \/ /\ \E arts \in scans :
                /\ articles' = arts
                /\ prev_articles' = IF record THEN arts ELSE <<>>
                /\ repeats' = IF record /\ scroll_attempts >= 1
                                  /\ Range(arts) = Range(prev_articles)
                               THEN repeats + 1 ELSE 0
                /\ tweets_data' = ProcessArticles(arts, tweets_data)
          /\ tweets_before' = Len(tweets_data)
          /\ same_count' = 0
          /\ issued' = issued \cup {"scroll", "query"}
          /\ commands' = ScanCommands
          /\ scans_started' = scans_started + 1
          /\ pc' = "stall"
          /\ UNCHANGED mainVars
    /\ UNCHANGED <<wait_result, last_height, no_new_tweets_count, extractVars>>

\* line 162 left out: a scan with new records does not reset the counter
StallCheckKeepsCount ==
    /\ pc = "stall"
    /\ IF Len(tweets_data) = tweets_before
       THEN LET n == no_new_tweets_count + 1
            IN  IF n >= ShowMoreThreshold
                THEN \/ /\ no_new_tweets_count' = 0      \* control found, clicked
                        /\ issued' = issued \cup {"query", "click"}
                        /\ commands' = commands \o ShowMoreCommands
                        /\ pc' = "height"
                        /\ UNCHANGED mainVars
                     \/ /\ no_new_tweets_count' = n      \* NoSuchElementException
                        /\ issued' = issued \cup {"query"}
                        /\ commands' = commands \o SubSeq(ShowMoreCommands, 1, 1)
                        /\ IF n >= ExhaustionThreshold
                           THEN Return(tweets_data)      \* break, line 160
                           ELSE pc' = "height" /\ UNCHANGED mainVars
                     \/ /\ no_new_tweets_count' = n      \* the click raises
                        /\ issued' = issued \cup {"query"}
                        /\ commands' = commands \o SubSeq(ShowMoreCommands, 1, 2)
                        /\ Raise("scrape")
                ELSE /\ no_new_tweets_count' = n
                     /\ pc' = "height"
                     /\ UNCHANGED <<mainVars, issued, commands>>
       ELSE /\ no_new_tweets_count' = no_new_tweets_count
            /\ pc' = "height"
            /\ UNCHANGED <<mainVars, issued, commands>>
    /\ articles' = <<>>
    /\ UNCHANGED <<wait_result, tweets_data, prev_articles, repeats,
                   tweets_before, last_height, scroll_attempts, same_count,
                   scans_started, extractVars>>

\* line 155 left out: clicking 'Show more' does not reset the counter
StallCheckClickKeepsCount ==
    /\ pc = "stall"
    /\ IF Len(tweets_data) = tweets_before
       THEN LET n == no_new_tweets_count + 1
            IN  IF n >= ShowMoreThreshold
                THEN \/ /\ no_new_tweets_count' = n      \* control found, clicked
                        /\ issued' = issued \cup {"query", "click"}
                        /\ commands' = commands \o ShowMoreCommands
                        /\ pc' = "height"
                        /\ UNCHANGED mainVars
                     \/ /\ no_new_tweets_count' = n      \* NoSuchElementException
                        /\ issued' = issued \cup {"query"}
                        /\ commands' = commands \o SubSeq(ShowMoreCommands, 1, 1)
                        /\ IF n >= ExhaustionThreshold
                           THEN Return(tweets_data)      \* break, line 160
                           ELSE pc' = "height" /\ UNCHANGED mainVars
                     \/ /\ no_new_tweets_count' = n      \* the click raises
                        /\ issued' = issued \cup {"query"}
                        /\ commands' = commands \o SubSeq(ShowMoreCommands, 1, 2)
                        /\ Raise("scrape")
                ELSE /\ no_new_tweets_count' = n
                     /\ pc' = "height"
                     /\ UNCHANGED <<mainVars, issued, commands>>
       ELSE /\ no_new_tweets_count' = 0
            /\ pc' = "height"
            /\ UNCHANGED <<mainVars, issued, commands>>
    /\ articles' = <<>>
    /\ UNCHANGED <<wait_result, tweets_data, prev_articles, repeats,
                   tweets_before, last_height, scroll_attempts, same_count,
                   scans_started, extractVars>>

\* lines 145-162: count the scans without a new record, try 'Show more'
StallCheck ==
    /\ pc = "stall"
    /\ IF Len(tweets_data) = tweets_before
       THEN LET n == no_new_tweets_count + 1
            IN  IF n >= ShowMoreThreshold
                THEN \/ /\ no_new_tweets_count' = 0      \* control found, clicked
                        /\ issued' = issued \cup {"query", "click"}
                        /\ commands' = commands \o ShowMoreCommands
                        /\ pc' = "height"
                        /\ UNCHANGED mainVars
                     \/ /\ no_new_tweets_count' = n      \* NoSuchElementException
                        /\ issued' = issued \cup {"query"}
                        /\ commands' = commands \o SubSeq(ShowMoreCommands, 1, 1)
                        /\ IF n >= ExhaustionThreshold
                           THEN Return(tweets_data)      \* break, line 160
                           ELSE pc' = "height" /\ UNCHANGED mainVars
                     \/ /\ no_new_tweets_count' = n      \* the click raises
                        /\ issued' = issued \cup {"query"}
                        /\ commands' = commands \o SubSeq(ShowMoreCommands, 1, 2)
                        /\ Raise("scrape")
                ELSE /\ no_new_tweets_count' = n
                     /\ pc' = "height"
                     /\ UNCHANGED <<mainVars, issued, commands>>
       ELSE /\ no_new_tweets_count' = 0
            /\ pc' = "height"
            /\ UNCHANGED <<mainVars, issued, commands>>
    /\ articles' = <<>>
    /\ UNCHANGED <<wait_result, tweets_data, prev_articles, repeats,
                   tweets_before, last_height, scroll_attempts, same_count,
                   scans_started, extractVars>>

\* lines 164-188: measure the document height up to three times
HeightCheck ==
    /\ pc = "height"
    /\ \/ /\ Raise("scrape")                     \* execute_script raises
          /\ commands' = commands \o SubSeq(HeightCommands(1), 1, 1)
          /\ UNCHANGED <<last_height, same_count, issued>>
       \/ \E m \in Measurements(last_height) :
             /\ same_count' = SameCount(last_height, m)
             /\ issued' = IF Len(m) = 3        \* lines 172-174
                          THEN issued \cup {"scroll"} ELSE issued
             /\ IF EndOfPage(last_height, m)
                THEN /\ Return(tweets_data)      \* break, line 180
                     /\ commands' = commands \o HeightCommands(Len(m))
                     /\ UNCHANGED last_height
                ELSE /\ last_height' = m[Len(m)] \* line 182
                     /\ commands' = <<>>         \* the cycle is over
                     /\ pc' = "loop"
                     /\ UNCHANGED mainVars
    /\ UNCHANGED <<wait_result, tweets_data, articles, prev_articles,
                   repeats, tweets_before, scroll_attempts, no_new_tweets_count,
                   scans_started, extractVars>>

ScrapeStep(scans, record) ==
    \/ Load
    \/ LoopExit
    \/ ScrollAndScan(scans, record)
    \/ StallCheck
    \/ HeightCheck

\* scrape_tweets entered for the first company with a fresh browser
InitScrape ==
    /\ pc = "scrape"
    /\ ci = 1
    /\ driver = 1
    /\ live = {1}
    /\ err = ""
    /\ tweets = <<>>
    /\ summary = <<>>
    /\ files = <<>>
    /\ wait_result = ""
    /\ tweets_data = <<>>
    /\ articles = <<>>
    /\ prev_articles = <<>>
    /\ repeats = 0
    /\ tweets_before = 0
    /\ last_height = "h1"
    /\ scroll_attempts = 0
    /\ no_new_tweets_count = 0
    /\ same_count = 0
    /\ issued = {}
    /\ commands = <<>>
    /\ scans_started = 0
    /\ xin = OtherArticle
    /\ xout = None

NextScrape == ScrapeStep(Scans, FALSE)

SpecScrape == InitScrape /\ [][NextScrape]_vars

\* scrape_tweets does not wait for anything but its accessor calls, which
\* return: a step that can be taken is taken.  The scans are those of a
\* timeline of plain posts and a detached element.
NextScrapeFair == ScrapeStep(PlainScans, FALSE)

SpecScrapeFair ==
    InitScrape /\ [][NextScrapeFair]_vars /\ WF_vars(NextScrapeFair)

\* the same function on the timeline of incomplete posts
NextSparse == ScrapeStep(SparseScans, FALSE)

SpecSparse == InitScrape /\ [][NextSparse]_vars

\* the same function on the small timeline, with the previous scan recorded
NextRescan == ScrapeStep(RescanScans, TRUE)

SpecRescan == InitScrape /\ [][NextRescan]_vars

-----------------------------------------------------------------------------
(* main *)

\* the locals of scrape_tweets before the function is entered
ScrapeIdle ==
    /\ wait_result' = ""
    /\ tweets_data' = <<>>
    /\ articles' = <<>>
    /\ prev_articles' = <<>>
    /\ repeats' = 0
    /\ tweets_before' = 0
    /\ last_height' = "h1"
    /\ scroll_attempts' = 0
    /\ no_new_tweets_count' = 0
    /\ same_count' = 0
    /\ issued' = {}
    /\ commands' = <<>>
    /\ scans_started' = 0

\* a data row of the summary CSV (lines 529-535, 542, 550)
SummaryRow(company, kind, detail, count, images) ==
    [company |-> company, kind |-> kind, detail |-> detail,
     count |-> count, images |-> images]

\* line 524 counting every record
ImageCountAll(tw) == Len(tw)

\* line 524
ImageCount(tw) == Cardinality({i \in 1..Len(tw) : tw[i].photos # <<>>})

\* how login_to_twitter can end (lines 421-483): the four ways it returns,
\* and input() raising outside its try block
LoginOutcomes == {"declined", "no_credentials", "failed", "logged_in", "input_raises"}

\* lines 507-511 with setup_driver (lines 63-93)
SetupDriver ==
    /\ pc = "setup"
    /\ \/ /\ pc' = "login"                       \* the driver is returned
          /\ driver' = ci
          /\ live' = live \cup {ci}
          /\ UNCHANGED err
       \/ /\ pc' = "except"                      \* lines 84-85 raise: no browser
          /\ err' = "setup"
          /\ UNCHANGED <<driver, live>>
       \/ /\ pc' = "except"                      \* lines 88-91 raise: the browser
          /\ err' = "setup"                      \* of line 85 is running
          /\ live' = live \cup {ci}
          /\ UNCHANGED driver
    /\ UNCHANGED <<ci, tweets, summary, files, scrapeVars, extractVars>>

\* line 514
Login ==
    /\ pc = "login"
    /\ \E outcome \in LoginOutcomes :
          IF outcome = "input_raises"
          THEN pc' = "except" /\ err' = "login"
          ELSE pc' = "scrape" /\ UNCHANGED err
    /\ UNCHANGED <<ci, driver, live, tweets, summary, files, scrapeVars,
                   extractVars>>

\* lines 536-542 without the write of line 542: a company without records
\* gets no summary row
PersistNoEmptyRow ==
    /\ pc = "persist"
    /\ IF tweets # <<>>
       THEN \/ /\ files' = Append(files, [company |-> ci, rows |-> Len(tweets)])
               /\ summary' = Append(summary,
                                SummaryRow(ci, "file", "", Len(tweets),
                                           ImageCount(tweets)))
               /\ pc' = "finally"
               /\ UNCHANGED err
            \/ /\ pc' = "except"
               /\ err' = "save"
               /\ \/ UNCHANGED files
                  \/ \E k \in 0..(Len(tweets) - 1) :
                        files' = Append(files, [company |-> ci, rows |-> k])
               /\ UNCHANGED summary
       ELSE /\ pc' = "finally"
            /\ UNCHANGED <<summary, files, err>>
    /\ UNCHANGED <<ci, driver, live, tweets, scrapeVars, extractVars>>

\* lines 519-542: save the records and append the summary row
Persist ==
    /\ pc = "persist"
    /\ IF tweets # <<>>
       THEN \/ /\ files' = Append(files, [company |-> ci, rows |-> Len(tweets)])
               /\ summary' = Append(summary,
                                SummaryRow(ci, "file", "", Len(tweets),
                                           ImageCount(tweets)))
               /\ pc' = "finally"
               /\ UNCHANGED err
            \/ /\ pc' = "except"                 \* save_to_csv raises
               /\ err' = "save"
               /\ \/ UNCHANGED files
                  \/ \E k \in 0..(Len(tweets) - 1) :
                        files' = Append(files, [company |-> ci, rows |-> k])
               /\ UNCHANGED summary
       ELSE /\ summary' = Append(summary,
                             SummaryRow(ci, "No tweets found", "", 0, 0))
            /\ pc' = "finally"
            /\ UNCHANGED <<files, err>>
    /\ UNCHANGED <<ci, driver, live, tweets, scrapeVars, extractVars>>

\* lines 544-550 saving what tweets_data held when the exception was raised
ExceptSavesPartial ==
    /\ pc = "except"
    /\ files' = IF tweets_data # <<>>
                THEN Append(files, [company |-> ci, rows |-> Len(tweets_data)])
                ELSE files
    /\ summary' = Append(summary,
                     SummaryRow(ci, "Error", err, Len(tweets_data),
                                ImageCount(tweets_data)))
    /\ pc' = "finally"
    /\ UNCHANGED <<ci, driver, live, err, tweets, scrapeVars, extractVars>>

\* the handler re-raising: the exception leaves main
ExceptReraises ==
    /\ pc = "except"
    /\ pc' = "end"
    /\ UNCHANGED <<ci, driver, live, err, tweets, summary, files, scrapeVars,
                   extractVars>>

\* lines 544-550
Except ==
    /\ pc = "except"
    /\ summary' = Append(summary, SummaryRow(ci, "Error", err, 0, 0))
    /\ pc' = "finally"
    /\ UNCHANGED <<ci, driver, live, err, tweets, files, scrapeVars, extractVars>>

\* lines 552-558
Finally ==
    /\ pc = "finally"
    /\ live' = IF driver # 0 THEN live \ {driver} ELSE live
    /\ pc' = "delay"
    /\ UNCHANGED <<ci, driver, err, tweets, summary, files, scrapeVars,
                   extractVars>>

\* tweets_data kept from one call of scrape_tweets to the next
DelayKeepsLedger ==
    /\ pc = "delay"
    /\ IF ci < NumCompanies
       THEN ci' = ci + 1 /\ pc' = "setup"
       ELSE ci' = ci /\ pc' = "end"
    /\ driver' = 0
    /\ err' = ""
    /\ tweets' = <<>>
    /\ wait_result' = ""
    /\ articles' = <<>>
    /\ prev_articles' = <<>>
    /\ repeats' = 0
    /\ tweets_before' = 0
    /\ last_height' = "h1"
    /\ scroll_attempts' = 0
    /\ no_new_tweets_count' = 0
    /\ same_count' = 0
    /\ issued' = {}
    /\ commands' = <<>>
    /\ scans_started' = 0
    /\ UNCHANGED <<live, summary, files, tweets_data, extractVars>>

\* lines 560-563 and the next iteration of line 498 (with line 507)
Delay ==
    /\ pc = "delay"
    /\ IF ci < NumCompanies
       THEN ci' = ci + 1 /\ pc' = "setup"
       ELSE ci' = ci /\ pc' = "end"
    /\ driver' = 0
    /\ err' = ""
    /\ tweets' = <<>>
    /\ ScrapeIdle
    /\ UNCHANGED <<live, summary, files, extractVars>>

Init ==
    /\ pc = "setup"
    /\ ci = 1
    /\ driver = 0
    /\ live = {}
    /\ err = ""
    /\ tweets = <<>>
    /\ summary = <<>>
    /\ files = <<>>
    /\ wait_result = ""
    /\ tweets_data = <<>>
    /\ articles = <<>>
    /\ prev_articles = <<>>
    /\ repeats = 0
    /\ tweets_before = 0
    /\ last_height = "h1"
    /\ scroll_attempts = 0
    /\ no_new_tweets_count = 0
    /\ same_count = 0
    /\ issued = {}
    /\ commands = <<>>
    /\ scans_started = 0
    /\ xin = OtherArticle
    /\ xout = None

Next ==
    \/ SetupDriver
    \/ Login
    \/ ScrapeStep(MainScans, FALSE)
    \/ Persist
    \/ Except
    \/ Finally
    \/ Delay

Spec == Init /\ [][Next]_vars

-----------------------------------------------------------------------------
(* extract_tweet_data on its own *)

\* elements with every combination of images, and elements without images
\* with every combination of the other fields
ExtractInputs ==
    {TweetArticle(1, "a", imgs) : imgs \in SeqsUpTo(Imgs, MaxImgs)}
    \cup {Article("tweet", f, h, t, tm, <<>>) :
            f \in Faults, h \in Hrefs, t \in Texts, tm \in Times}

Idle ==
    /\ ci = 1
    /\ driver = 0
    /\ live = {}
    /\ err = ""
    /\ tweets = <<>>
    /\ summary = <<>>
    /\ files = <<>>
    /\ wait_result = ""
    /\ tweets_data = <<>>
    /\ articles = <<>>
    /\ prev_articles = <<>>
    /\ repeats = 0
    /\ tweets_before = 0
    /\ last_height = "h1"
    /\ scroll_attempts = 0
    /\ no_new_tweets_count = 0
    /\ same_count = 0
    /\ issued = {}
    /\ commands = <<>>
    /\ scans_started = 0

InitExtract ==
    /\ pc = "extract"
    /\ xin \in ExtractInputs
    /\ xout = None
    /\ Idle

\* tweet = extract_tweet_data(article) (line 137)
Extract ==
    /\ pc = "extract"
    /\ xout' = extract_tweet_data(xin)
    /\ pc' = "extracted"
    /\ UNCHANGED <<xin, mainVars, scrapeVars>>

NextExtract == Extract

SpecExtract == InitExtract /\ [][NextExtract]_vars

-----------------------------------------------------------------------------
(* extract_tweet_data on its own: the metrics *)

TextSpan(t) == [present |-> TRUE, text |-> t]

\* a post whose 'like' selectors match the given elements
LikeArticle(sel1, sel2) ==
    WithMetrics(TweetArticle(1, "a", <<>>),
                [NoMetrics EXCEPT !["like"] = <<sel1, sel2>>])

\* aria-label values of at most n characters: digits, a point, a suffix
\* and a letter
AriaLabels(n) == SeqsUpTo({"1", ".", "K", "x"}, n)

\* elements for the posts with several elements per selector: without
\* count text, with "0", "2", "-1K", and with "K" (float('') raises)
SomeElements ==
    {MetricElement(NoSpan, <<>>)}
    \cup {MetricElement(TextSpan(t), <<>>) :
             t \in {<<"0">>, <<"2">>, <<"-", "1", "K">>, <<"K">>}}

\* the posts handed to extract_tweet_data: one 'like' element with every
\* counter text; one 'like' element without counter text with every
\* aria-label; several elements under both 'like' selectors
InitMetric ==
    /\ pc = "extract"
    /\ \/ \E t \in CountTexts(MaxCountLen) :
             xin = LikeArticle(<<MetricElement(TextSpan(t), <<>>)>>, <<>>)
       \/ \E sp \in {NoSpan, TextSpan(<<>>)}, a \in AriaLabels(MaxCountLen) :
             xin = LikeArticle(<<MetricElement(sp, a)>>, <<>>)
       \/ \E sel1 \in SeqsUpTo(SomeElements, MaxMetricElems),
             sel2 \in SeqsUpTo(SomeElements, MaxMetricElems) :
             xin = LikeArticle(sel1, sel2)
    /\ xout = None
    /\ Idle

SpecMetric == InitMetric /\ [][NextExtract]_vars

-----------------------------------------------------------------------------
(* save_to_csv on its own *)

DecChars == <<"0", "1", "2", "3", "4", "5", "6", "7", "8", "9">>

\* the i-th character of a string
At(s, i) == SubSeq(s, i, i)

IsDec(c) == \E n \in 1..10 : DecChars[n] = c

DecValue(c) == (CHOOSE n \in 1..10 : DecChars[n] = c) - 1

AllDec(s) == \A i \in 1..Len(s) : IsDec(At(s, i))

RECURSIVE Number(_)
Number(s) ==
    IF s = "" THEN 0
    ELSE Number(SubSeq(s, 1, Len(s) - 1)) * 10 + DecValue(At(s, Len(s)))

\* date.replace('Z', '+00:00') (line 397)
RECURSIVE ReplaceZ(_)
ReplaceZ(s) ==
    IF s = "" THEN ""
    ELSE (IF At(s, 1) = "Z" THEN "+00:00" ELSE At(s, 1)) \o ReplaceZ(Tail(s))

DaysInMonth(y, m) ==
    IF m = 2
    THEN (IF y % 4 = 0 /\ (y % 100 # 0 \/ y % 400 = 0) THEN 29 ELSE 28)
    ELSE IF m \in {4, 6, 9, 11} THEN 30 ELSE 31

\* the date part YYYY-MM-DD of datetime.fromisoformat
IsoDate(d) ==
    /\ AllDec(SubSeq(d, 1, 4)) /\ At(d, 5) = "-"
    /\ AllDec(SubSeq(d, 6, 7)) /\ At(d, 8) = "-"
    /\ AllDec(SubSeq(d, 9, 10))
    /\ Number(SubSeq(d, 1, 4)) >= 1
    /\ Number(SubSeq(d, 6, 7)) \in 1..12
    /\ Number(SubSeq(d, 9, 10)) \in
          1..DaysInMonth(Number(SubSeq(d, 1, 4)), Number(SubSeq(d, 6, 7)))

\* HH[:MM[:SS[.fff[fff]]]] with the fields in range
IsoClock(t) ==
    /\ Len(t) \in {2, 5, 8, 12, 15}
    /\ AllDec(SubSeq(t, 1, 2)) /\ Number(SubSeq(t, 1, 2)) < 24
    /\ Len(t) >= 5 => /\ At(t, 3) = ":"
                      /\ AllDec(SubSeq(t, 4, 5))
                      /\ Number(SubSeq(t, 4, 5)) < 60
    /\ Len(t) >= 8 => /\ At(t, 6) = ":"
                      /\ AllDec(SubSeq(t, 7, 8))
                      /\ Number(SubSeq(t, 7, 8)) < 60
    /\ Len(t) > 8 => At(t, 9) = "." /\ AllDec(SubSeq(t, 10, Len(t)))

\* the UTC offset after its sign: HH:MM[:SS[.ffffff]]
IsoOffset(o) == Len(o) \in {5, 8, 15} /\ IsoClock(o)

\* datetime.fromisoformat(s) for the formats every Python from 3.7 on
\* accepts: YYYY-MM-DD, then optionally one separator character, a clock
\* time and a signed offset.  Anything else raises ValueError.
FromIso(s) ==
    IF Len(s) < 10 THEN [ok |-> FALSE]
    ELSE IF ~IsoDate(SubSeq(s, 1, 10)) THEN [ok |-> FALSE]
    ELSE IF Len(s) = 10
         THEN [ok |-> TRUE, date |-> s, hh |-> "00", mm |-> "00", ss |-> "00"]
    ELSE LET rest  == SubSeq(s, 12, Len(s))
             signs == {i \in 1..Len(rest) : At(rest, i) \in {"+", "-"}}
             cut   == IF signs = {} THEN Len(rest) + 1
                      ELSE CHOOSE i \in signs : \A j \in signs : i <= j
             clock == SubSeq(rest, 1, cut - 1)
             off   == SubSeq(rest, cut + 1, Len(rest))
         IN  IF ~IsoClock(clock) \/ (signs # {} /\ ~IsoOffset(off))
             THEN [ok |-> FALSE]
             ELSE [ok   |-> TRUE,
                   date |-> SubSeq(s, 1, 10),
                   hh   |-> SubSeq(clock, 1, 2),
                   mm   |-> IF Len(clock) >= 5 THEN SubSeq(clock, 4, 5)
                            ELSE "00",
                   ss   |-> IF Len(clock) >= 8 THEN SubSeq(clock, 7, 8)
                            ELSE "00"]

\* date_obj.strftime('%Y-%m-%d %H:%M:%S') (line 398), for a year of four
\* significant digits
StrfTime(f) == f.date \o " " \o f.hh \o ":" \o f.mm \o ":" \o f.ss

\* lines 394-400 with the except branch dropping the value
FormatDateDropsRaw(date) ==
    LET f == FromIso(ReplaceZ(date))
    IN  IF f.ok THEN StrfTime(f) ELSE ""

\* lines 394-400: formatted_date
FormatDate(date) ==
    LET f == FromIso(ReplaceZ(date))
    IN  IF f.ok THEN StrfTime(f) ELSE date

\* '; '.join(photos) (line 410) on locators that are tuples of characters
RECURSIVE Join(_)
Join(photos) ==
    IF photos = <<>> THEN <<>>
    ELSE IF Len(photos) = 1 THEN photos[1]
    ELSE photos[1] \o <<";", " ">> \o Join(Tail(photos))

\* the path download_image returns for the j-th image of a post (lines
\* 332, 388); the folder and the extension are left out
LocalPath(id, j) == [tweet |-> id, img |-> j]

\* lines 382-391 with one failed download discarding every path of the post
LocalImagesAllOrNothing(tweet, downloaded) ==
    IF \E j \in 1..Len(tweet.photos) : ~downloaded[j] THEN <<>>
    ELSE [j \in 1..Len(tweet.photos) |-> LocalPath(tweet.id, j)]

\* lines 382-391: the paths of the images whose download succeeded, in the
\* order of the photos; downloaded[j] tells whether download_image returned
\* a path for the j-th photo
LocalImages(tweet, downloaded) ==
    LET got(j) == downloaded[j]
        idx    == SelectSeq([j \in 1..Len(tweet.photos) |-> j], got)
    IN  [k \in 1..Len(idx) |-> LocalPath(tweet.id, idx[k])]

\* lines 402-412: the row written for the i-th record; Local_Images is kept
\* as the sequence of its paths
Row(i, tweet, downloaded) ==
    [sno          |-> i,
     Tweet_ID     |-> tweet.id,
     Date         |-> FormatDate(tweet.timestamp),
     Tweet_Text   |-> tweet.text,
     Likes        |-> tweet.likes,
     Retweets     |-> tweet.retweets,
     Replies      |-> tweet.replies,
     Image_URLs   |-> Join(tweet.photos),
     Local_Images |-> LocalImages(tweet, downloaded)]

\* the values of the datetime attribute the records carry: two instants,
\* the empty string of line 218, a date that does not exist, a date without
\* time and a text that is no date
Timestamps ==
    {"2024-01-01T00:00:00.000Z", "2023-12-31T23:59:59.000Z", "",
     "2024-02-30T10:00:00.000Z", "2024-03-05", "Mar 5"}

\* a record as extract_tweet_data returns it
Record(id, timestamp, photos) ==
    [ok        |-> TRUE,
     id        |-> id,
     text      |-> IF id = 1 THEN "a" ELSE "",
     timestamp |-> timestamp,
     replies   |-> Zero,
     retweets  |-> Count(id, 1),
     likes     |-> Count(id, 1000),
     photos    |-> photos]

\* records without images with every timestamp, and records of one instant
\* with one and with two images
Records(n) ==
    {Record(id, ts, <<>>) : id \in 1..n, ts \in Timestamps}
    \cup {Record(id, "2024-01-01T00:00:00.000Z", ph) :
             id \in 1..n, ph \in {<<UrlShort>>, <<UrlShort, UrlMediaA>>}}

\* the lists scrape_tweets can return: at most k records out of Records(n),
\* no id twice
RECURSIVE SaveLists(_, _)
SaveLists(n, k) ==
    IF k = 0 THEN {<<>>}
    ELSE LET shorter == SaveLists(n, k - 1)
         IN  shorter \cup
             UNION {{Append(t, r) : r \in {q \in Records(n) : q.id \notin Ids(t)}} :
                      t \in {u \in shorter : Len(u) = k - 1}}

SaveInputs(n) == SaveLists(n, n)

InitSave ==
    /\ pc = "save"
    /\ xin \in SaveInputs(MaxRows)
    /\ xout = None
    /\ Idle

\* lines 350-378: nothing to save, or the file is opened and the header
\* written; makedirs or open may raise
OpenFile ==
    /\ pc = "save"
    /\ \/ xin = <<>> /\ pc' = "saved" /\ UNCHANGED xout
       \/ /\ xin # <<>>
          /\ pc' = "rows"
          /\ xout' = [ok |-> TRUE, rows |-> <<>>, downloaded |-> <<>>]
       \/ xin # <<>> /\ pc' = "save_raised" /\ UNCHANGED xout
    /\ UNCHANGED <<xin, mainVars, scrapeVars>>

\* lines 380-412: one iteration of the loop over the records
WriteRow ==
    /\ pc = "rows"
    /\ \E i \in 1..Len(xin) :
          /\ i = Len(xout.rows) + 1
          /\ \E downloaded \in [1..Len(xin[i].photos) -> BOOLEAN] :
                xout' = [ok   |-> TRUE,
                         rows |-> Append(xout.rows,
                                         Row(i, xin[i], downloaded)),
                         downloaded |-> Append(xout.downloaded, downloaded)]
    /\ UNCHANGED <<pc, xin, mainVars, scrapeVars>>

\* an exception leaves save_to_csv while the file is open: os.makedirs in
\* download_image (line 321, outside its try) or the write of line 402
WriteRaises ==
    /\ pc = "rows"
    /\ Len(xout.rows) < Len(xin)
    /\ pc' = "save_raised"
    /\ UNCHANGED <<xin, xout, mainVars, scrapeVars>>

\* lines 414-418
SaveReturn ==
    /\ pc = "rows"
    /\ Len(xout.rows) = Len(xin)
    /\ pc' = "saved"
    /\ UNCHANGED <<xin, xout, mainVars, scrapeVars>>

NextSave == OpenFile \/ WriteRow \/ WriteRaises \/ SaveReturn

SpecSave == InitSave /\ [][NextSave]_vars

-----------------------------------------------------------------------------
(* merge_company_tweets.py: merge_csv_files *)

\* the characters of the Date values in the order of their code points
CodeChars == <<" ", "-", ".", "0", "1", "2", "3", "4", "5", "6", "7", "8",
               "9", ":", "M", "T", "Z", "a", "r">>

Code(c) == CHOOSE n \in 1..Len(CodeChars) : CodeChars[n] = c

\* a < b for Python strings
RECURSIVE StrLess(_, _)
StrLess(a, b) ==
    IF b = "" THEN FALSE
    ELSE IF a = "" THEN TRUE
    ELSE IF At(a, 1) = At(b, 1) THEN StrLess(Tail(a), Tail(b))
    ELSE Code(At(a, 1)) < Code(At(b, 1))

\* row.get(key, default) on a row of csv.DictReader
Get(row, key, default) == IF key \in DOMAIN row THEN row[key] ELSE default

\* lines 111-133: the name the most recent summary file gives for a handle,
\* the handle itself when it gives none
get_company_name(company_handle) ==
    IF company_handle = "h1" THEN "N1" ELSE company_handle

\* lines 61-73: the standardized row (the columns Tweet_Text to
\* Local_Images are reconciled like Date and are left out)
Tweet(file, row) ==
    [Company_Name   |-> get_company_name(file.handle),
     Company_Handle |-> file.handle,
     sno            |-> Get(row, "S.No", ""),
     Tweet_ID       |-> Get(row, "Tweet_ID", Get(row, "tweet_id", "")),
     Date           |-> Get(row, "Date", Get(row, "timestamp", ""))]

\* line 54: the header has an identifier column
IsTweetFile(file) ==
    file.header # {} /\ file.header \cap {"Tweet_ID", "tweet_id", "Tweet ID"} # {}

\* lines 47-78 for one file: the rows it adds to all_tweets; an exception
\* while reading (line 77) keeps the rows read before it
RowsOf(file) ==
    IF ~IsTweetFile(file) THEN <<>>
    ELSE [i \in 1..file.readable |-> Tweet(file, file.rows[i])]

\* line 81 in ascending order
RECURSIVE SortAscending(_)
SortAscending(all_tweets) ==
    IF all_tweets = <<>> THEN <<>>
    ELSE LET rest == SortAscending(Tail(all_tweets))
             t    == Head(all_tweets)
             Before(x) == StrLess(x.Date, t.Date)
             After(x)  == ~StrLess(x.Date, t.Date)
         IN  SelectSeq(rest, Before) \o <<t>> \o SelectSeq(rest, After)

\* line 81: list.sort(key=Date, reverse=True) is stable: descending keys,
\* rows with equal keys in the order they had
RECURSIVE SortDescending(_)
SortDescending(all_tweets) ==
    IF all_tweets = <<>> THEN <<>>
    ELSE LET n    == Len(all_tweets)
             rest == SortDescending(SubSeq(all_tweets, 1, n - 1))
             t    == all_tweets[n]
             Before(x) == ~StrLess(x.Date, t.Date)
             After(x)  == StrLess(x.Date, t.Date)
         IN  SelectSeq(rest, Before) \o <<t>> \o SelectSeq(rest, After)

\* lines 104-106: the rows written, with the new serial number
Renumber(all_tweets) ==
    [i \in 1..Len(all_tweets) |-> [all_tweets[i] EXCEPT !.sno = i]]

\* the Date values the files carry: two formatted instants, the empty raw
\* value, a raw timestamp
FileDates == {"2024-01-01 00:00:00", "2023-12-31 23:59:59", "",
              "2024-01-01T00:00:00.000Z"}

\* a file matched by *_tweets_*.csv: the handle its name starts with,
\* whether its name contains 'summary', its header, its data rows, and how
\* many of them the reader yields before it raises
File(handle, is_summary, header, rows, readable) ==
    [handle |-> handle, summary |-> is_summary, header |-> header,
     rows |-> rows, readable |-> readable]

\* a data row of a file whose identifier and date columns are named idcol
\* and datecol ("" when the file has no such column)
FileRow(idcol, datecol, sno, id, date) ==
    LET a == "S.No" :> sno
        b == IF idcol = "" THEN a ELSE a @@ (idcol :> id)
    IN  IF datecol = "" THEN b ELSE b @@ (datecol :> date)

Header(idcol, datecol) ==
    {"S.No"} \cup (IF idcol = "" THEN {} ELSE {idcol})
             \cup (IF datecol = "" THEN {} ELSE {datecol})

\* files as save_to_csv writes them for h1: rows numbered from 1, with the
\* ids 11, 12, ... and every combination of two instants
SavedFiles(n) ==
    {File("h1", FALSE, Header("Tweet_ID", "Date"),
          [i \in 1..Len(dates) |->
              FileRow("Tweet_ID", "Date", DecChars[i + 1],
                      "1" \o DecChars[i + 1], dates[i])],
          Len(dates)) :
       dates \in SeqsUpTo({"2024-01-01 00:00:00", "2023-12-31 23:59:59"}, n)}

\* files of h2 with two rows under every naming of the identifier and date
\* columns, and one without date column
VariantFiles ==
    {File("h2", FALSE, Header(idcol, datecol),
          <<FileRow(idcol, datecol, "1", "21", ""),
            FileRow(idcol, datecol, "2", "22", "2024-01-01T00:00:00.000Z")>>,
          2) :
       idcol \in {"Tweet_ID", "tweet_id", "Tweet ID", ""},
       datecol \in {"Date", "timestamp"}}
     \cup {File("h2", FALSE, Header("Tweet_ID", ""),
                <<FileRow("Tweet_ID", "", "1", "21", ""),
                  FileRow("Tweet_ID", "", "2", "22", "")>>, 2)}

\* the summary file main writes (its name matches *_tweets_*.csv), an empty
\* file, and a file whose second row cannot be decoded
OtherFiles ==
    {File("company", TRUE, {"Company Name", "Twitter Handle"},
          <<("Company Name" :> "N1") @@ ("Twitter Handle" :> "h1")>>, 1),
     File("h2", FALSE, {}, <<>>, 0),
     File("h2", FALSE, Header("Tweet_ID", "Date"),
          <<FileRow("Tweet_ID", "Date", "1", "23", ""),
            FileRow("Tweet_ID", "Date", "2", "24", "2024-01-01 00:00:00")>>,
          1)}

\* glob.glob returns the files in any order
InitMerge ==
    /\ pc = "merge"
    /\ xin \in SeqsUpTo(SavedFiles(MaxRows) \cup VariantFiles \cup OtherFiles,
                        MaxFiles)
    /\ xout = None
    /\ Idle

\* lines 22-34: the summary files are dropped; nothing to merge ends the run
Glob ==
    /\ pc = "merge"
    /\ LET NotSummary(f) == ~f.summary
           csv_files == SelectSeq(xin, NotSummary)
       IN  IF csv_files = <<>>
           THEN pc' = "merged" /\ UNCHANGED xout
           ELSE /\ pc' = "read"
                /\ xout' = [ok |-> TRUE, csv_files |-> csv_files,
                            all_tweets |-> <<>>, written |-> FALSE]
    /\ UNCHANGED <<xin, mainVars, scrapeVars>>

\* lines 37-78: one file of the loop
ReadFile ==
    /\ pc = "read"
    /\ xout.csv_files # <<>>
    /\ xout' = [xout EXCEPT
                  !.csv_files = Tail(@),
                  !.all_tweets = @ \o RowsOf(Head(xout.csv_files))]
    /\ UNCHANGED <<pc, xin, mainVars, scrapeVars>>

\* lines 80-108: sort, renumber and write the merged file
WriteMerged ==
    /\ pc = "read"
    /\ xout.csv_files = <<>>
    /\ xout' = [xout EXCEPT
                  !.all_tweets = Renumber(SortDescending(@)),
                  !.written = TRUE]
    /\ pc' = "merged"
    /\ UNCHANGED <<xin, mainVars, scrapeVars>>

NextMerge == Glob \/ ReadFile \/ WriteMerged

SpecMerge == InitMerge /\ [][NextMerge]_vars

-----------------------------------------------------------------------------
(* analyze_tweet_images.py and analyze_tweets_new_model.py: process_tweet *)

\* what analyze_image returns for an image (lines 107-117 of
\* analyze_tweets_new_model.py, lines 104-123 of analyze_tweet_images.py): no
\* human, or a human with the gender 'male', 'female', 'both' or 'unknown'
ImageClasses ==
    {[human |-> FALSE, gender |-> "unknown"]}
    \cup {[human |-> TRUE, gender |-> g] :
             g \in {"male", "female", "both", "unknown"}}

\* the if chain with 'male' tested first
OverallGenderMaleFirst(genders) ==
    IF InSeq("male", genders) THEN "male"
    ELSE IF InSeq("both", genders) THEN "both"
    ELSE IF InSeq("female", genders) THEN "female"
    ELSE "unknown"

\* lines 156-164: the if chain that sets detected_gender, 'unknown' to
\* start with (line 138)
OverallGender(genders) ==
    IF InSeq("both", genders) THEN "both"
    ELSE IF InSeq("male", genders) /\ InSeq("female", genders) THEN "both"
    ELSE IF InSeq("male", genders) THEN "male"
    ELSE IF InSeq("female", genders) THEN "female"
    ELSE "unknown"

\* line 133: the images get_image_paths found, each with its classification
InitEnrich ==
    /\ pc = "process"
    /\ xin \in SeqsUpTo(ImageClasses, MaxImgs)
    /\ xout = None
    /\ Idle

\* lines 133-144: the initial values; without images (line 141) the result
\* is ready
StartTweet ==
    /\ pc = "process"
    /\ xout' = [ok |-> TRUE, num_images |-> Len(xin),
                human_present |-> "no", detected_gender |-> "unknown",
                humans_detected |-> FALSE, genders |-> <<>>, analysed |-> 0]
    /\ pc' = IF Len(xin) > 0 THEN "analyze" ELSE "processed"
    /\ UNCHANGED <<xin, mainVars, scrapeVars>>

\* lines 146-150: one iteration of the loop over image_paths
AnalyzeImage ==
    /\ pc = "analyze"
    /\ xout.analysed < Len(xin)
    /\ LET r == xin[xout.analysed + 1]
       IN  xout' = [xout EXCEPT
                      !.analysed = @ + 1,
                      !.humans_detected = IF r.human THEN TRUE ELSE @,
                      !.genders = IF r.human THEN Append(@, r.gender) ELSE @]
    /\ UNCHANGED <<pc, xin, mainVars, scrapeVars>>

\* lines 152-164: human_present and detected_gender
Determine ==
    /\ pc = "analyze"
    /\ xout.analysed = Len(xin)
    /\ xout' = [xout EXCEPT
                  !.human_present = IF xout.humans_detected THEN "yes" ELSE @,
                  !.detected_gender = OverallGender(xout.genders)]
    /\ pc' = "processed"
    /\ UNCHANGED <<xin, mainVars, scrapeVars>>

NextEnrich == StartTweet \/ AnalyzeImage \/ Determine

SpecEnrich == InitEnrich /\ [][NextEnrich]_vars

-----------------------------------------------------------------------------
(* Properties of scrape_tweets *)

Returned == pc = "persist"

Raised == pc = "except"

\* a step of the scroll loop that scanned the rendered articles
ScanStep == pc = "loop" /\ pc' = "stall"

\* the element passes the checks of lines 136-138 up to the id test
Usable(a) ==
    a.fault = "none" /\ a.testid = "tweet" /\ HasId(a)

IdSeq(td) == [i \in 1..Len(td) |-> td[i].id]

IsPrefix(s, t) == Len(s) <= Len(t) /\ SubSeq(t, 1, Len(s)) = s

\* the ids a scan observes, in element order
ObservedIds(arts) ==
    LET IsUsable(a) == Usable(a)
        u == SelectSeq(arts, IsUsable)
    IN  [i \in 1..Len(u) |-> TweetId(u[i])]

\* a sequence with every occurrence of a value after its first removed
FirstOccurrences(s) ==
    LET idx == [i \in 1..Len(s) |-> i]
        IsFirst(i) == \A j \in 1..(i - 1) : s[j] # s[i]
        firsts == SelectSeq(idx, IsFirst)
    IN  [n \in 1..Len(firsts) |-> s[firsts[n]]]

\* C1: scrape_tweets never starts more than max_scroll_attempts scan cycles,
\* and every run of it ends (it returns or an accessor call raises),
\* whatever the scans, the heights and the 'Show more' control do.
C1_BoundedTermination ==
    /\ [](scroll_attempts <= max_scroll_attempts)
    /\ <>(Returned \/ Raised)

\* the run ended on the scroll ceiling alone, after a recovery click
C1_Witness ==
    /\ Returned
    /\ wait_result = "found"
    /\ scroll_attempts = max_scroll_attempts
    /\ Len(tweets_data) < TWEET_LIMIT
    /\ no_new_tweets_count < ExhaustionThreshold
    /\ same_count < 3
    /\ "click" \in issued

\* C2: the accumulated records never hold two records with the same id; a
\* scan keeps every record accepted before it unchanged, and a record it adds
\* is the extraction of the first usable element of the scan with that id.
C2_IdExclusivity ==
    /\ [](\A i, j \in 1..Len(tweets_data) :
             tweets_data[i].id = tweets_data[j].id => i = j)
    /\ [][ScanStep =>
            /\ IsPrefix(tweets_data, tweets_data')
            /\ \A k \in (Len(tweets_data) + 1)..Len(tweets_data') :
                  \E i \in 1..Len(articles') :
                     /\ Usable(articles'[i])
                     /\ tweets_data'[k] = extract_tweet_data(articles'[i])
                     /\ \A j \in 1..(i - 1) :
                           Usable(articles'[j]) =>
                              TweetId(articles'[j]) # tweets_data'[k].id]_vars

\* a scan showed an already collected id with another text, and one scan
\* showed the same id twice with different texts
C2_Witness ==
    /\ pc = "stall"
    /\ Len(articles) = 2
    /\ Usable(articles[1]) /\ Usable(articles[2])
    /\ articles[1].href = articles[2].href
    /\ articles[1].text # articles[2].text
    /\ \E k \in 1..Len(tweets_data) :
          /\ tweets_data[k].id = articles[1].href.digits
          /\ tweets_data[k].text # articles[1].text

\* C3: a scan that finds the same set of elements as the scan of the cycle
\* before accepts no record, however many times in a row this happens.
C3_RescanIdempotent ==
    [][(ScanStep /\ scroll_attempts >= 1
          /\ Range(articles') = Range(prev_articles))
       => tweets_data' = tweets_data]_vars

\* the same non-empty set of elements, one of them usable, was found three
\* more times in a row
C3_Witness ==
    /\ pc = "stall"
    /\ repeats >= 3
    /\ \E i \in 1..Len(articles) : Usable(articles[i])
    /\ Len(tweets_data) = tweets_before
    /\ tweets_data # <<>>

\* C4: the loop starts from no record, each scan extends the ids collected so
\* far by the ids it observes, in element order, without the ids already
\* present (so the result is the concatenation of the observed ids with
\* later occurrences removed), and that sequence is what is returned.
C4_FirstOccurrenceOrder ==
    [][/\ (pc = "scrape" /\ pc' = "loop") => tweets_data' = <<>>
       /\ ScanStep =>
             \A seen \in {IdSeq(tweets_data) \o ObservedIds(articles')} :
                IdSeq(tweets_data') = FirstOccurrences(seen)
       /\ (pc \in {"loop", "stall", "height"} /\ pc' = "persist") =>
             tweets' = tweets_data /\ tweets_data' = tweets_data
       /\ (pc \in {"stall", "height"}) => tweets_data' = tweets_data]_vars

\* scans [2], [1,2] gave 2,1: the second 2 was rejected
C4_Witness ==
    /\ pc = "stall"
    /\ scroll_attempts = 2
    /\ tweets_before = 1
    /\ ObservedIds(articles) = <<1, 2>>
    /\ IdSeq(tweets_data) = <<2, 1>>

-----------------------------------------------------------------------------
\* C5, as claimed: the loop is left normally only on the record ceiling, on
\* the scroll ceiling, or with the no-growth counter at 5 or more together
\* with an unchanged document height.
C5_ExitAsClaimed ==
    (Returned /\ wait_result = "found") =>
        \/ Len(tweets_data) >= TWEET_LIMIT
        \/ scroll_attempts >= max_scroll_attempts
        \/ (no_new_tweets_count >= ExhaustionThreshold /\ same_count = 3)

\* C5, amended: the loop is left normally only on the record ceiling, on the
\* scroll ceiling, with the no-growth counter at 5 or more (the height is
\* not consulted), or after three measurements of this cycle found the
\* height unchanged (the counter is not consulted).
C5_ExitCondition ==
    (Returned /\ wait_result = "found") =>
        \/ Len(tweets_data) >= TWEET_LIMIT
        \/ scroll_attempts >= max_scroll_attempts
        \/ no_new_tweets_count >= ExhaustionThreshold
        \/ same_count = 3

\* left on the unchanged height alone, in a cycle that accepted a record
C5_Witness ==
    /\ Returned
    /\ wait_result = "found"
    /\ same_count = 3
    /\ no_new_tweets_count = 0
    /\ Len(tweets_data) < TWEET_LIMIT
    /\ scroll_attempts < max_scroll_attempts

\* C6, as claimed: no entry of a record's photos contains 'profile' or
\* 'avatar' in any letter case.
C6_MediaExclusion ==
    (pc = "extracted" /\ xout.ok) =>
        \A i \in 1..Len(xout.photos) :
           /\ ~Contains(Lower(xout.photos[i]), StrProfile)
           /\ ~Contains(Lower(xout.photos[i]), StrAvatar)

\* C7: a scan in which get_attribute or the extraction fails on an element
\* still goes on to the stall check, keeps the records accepted before, and
\* has the id of every usable element of the scan among its records.
C7_ElementFaultContained ==
    [][(pc = "loop" /\ articles' # articles) =>
          /\ pc' = "stall"
          /\ IsPrefix(tweets_data, tweets_data')
          /\ \A i \in 1..Len(articles') :
                Usable(articles'[i]) =>
                   TweetId(articles'[i]) \in Ids(tweets_data')]_vars

\* after an earlier record, a scan whose first element raised accepted its
\* second element
C7_Witness ==
    /\ pc = "stall"
    /\ tweets_before >= 1
    /\ Len(articles) = 2
    /\ articles[1].fault = "attr"
    /\ Usable(articles[2])
    /\ Len(tweets_data) = tweets_before + 1
    /\ tweets_data[Len(tweets_data)].id = articles[2].href.digits

-----------------------------------------------------------------------------
(* Properties of main *)

\* the rows of the per-company files written for a company
FilesOf(company) == {i \in 1..Len(files) : files[i].company = company}

\* C8: an exception raised by setup_driver, login_to_twitter, scrape_tweets
\* or save_to_csv for a company is caught in that company's iteration: the
\* handler appends the company's row with the error and counts 0 and 0, the
\* iteration goes on to its cleanup and to the next company, and main ends
\* only after the last company.
C8_TargetFaultIsolated ==
    /\ []((pc \in {"finally", "delay"} /\ err # "") =>
             /\ Len(summary) = ci
             /\ summary[ci] = SummaryRow(ci, "Error", err, 0, 0))
    /\ [](pc = "end" => (ci = NumCompanies /\ Len(summary) = NumCompanies))
    /\ [][pc = "except" => pc' = "finally"]_vars
    /\ [][(pc = "delay" /\ ci < NumCompanies) =>
             (pc' = "setup" /\ ci' = ci + 1)]_vars

\* the first company failed while scraping, the second one was saved
C8_Witness ==
    /\ pc = "end"
    /\ summary[1] = SummaryRow(1, "Error", "scrape", 0, 0)
    /\ summary[2].kind = "file"
    /\ FilesOf(2) # {}

\* C9, as claimed: when a company's iteration begins, and when main ends,
\* every browser instance started so far has been quit.
C9_BrowsersReleased ==
    (pc \in {"setup", "end"}) => live = {}

\* C10: when the initial wait times out, scrape_tweets returns no record
\* without any scroll command or element query; main then writes no file
\* for the company, appends its row 'No tweets found' with counts 0 and 0,
\* and goes on to the next company.
C10_NoContent ==
    /\ [](wait_result = "timeout" =>
             /\ pc \in {"persist", "finally", "delay"}
             /\ issued = {}
             /\ tweets = <<>>
             /\ err = ""
             /\ FilesOf(ci) = {})
    /\ []((wait_result = "timeout" /\ pc \in {"finally", "delay"}) =>
             /\ Len(summary) = ci
             /\ summary[ci] = SummaryRow(ci, "No tweets found", "", 0, 0))
    /\ [][(wait_result = "timeout" /\ pc = "delay" /\ ci < NumCompanies) =>
             (pc' = "setup" /\ ci' = ci + 1)]_vars

\* the second company is set up after the first one timed out
C10_Witness ==
    /\ wait_result = "timeout"
    /\ pc = "delay"
    /\ ci < NumCompanies
    /\ summary = <<SummaryRow(1, "No tweets found", "", 0, 0)>>
    /\ files = <<>>

-----------------------------------------------------------------------------
\* C11: the summary always holds one row for each company already dealt
\* with, in the order of COMPANIES (one row for each company when main has
\* finished, whatever happened to the company), and a step of main leaves
\* the rows written so far as they are, adding at most one.
C11_OneRowPerTarget ==
    /\ [](/\ \A i \in 1..Len(summary) : summary[i].company = i
          /\ Len(summary) =
                IF pc \in {"finally", "delay", "end"} THEN ci ELSE ci - 1)
    /\ [](pc = "end" => Len(summary) = NumCompanies)
    /\ [][/\ IsPrefix(summary, summary')
          /\ Len(summary') <= Len(summary) + 1]_vars

\* main has finished; the first company failed, the last one gave records
C11_Witness ==
    /\ pc = "end"
    /\ summary[1].kind = "Error"
    /\ summary[NumCompanies].kind = "file"
    /\ \E i \in 1..Len(files) : files[i].company = NumCompanies

-----------------------------------------------------------------------------
(* Properties of the metrics *)

Extracted == pc = "extracted"

\* the post has one 'like' element, found by the first selector, which has
\* a counter span and no aria-label
ShowsCount(article) ==
    /\ article.metrics["like"][2] = <<>>
    /\ Len(article.metrics["like"][1]) = 1
    /\ article.metrics["like"][1][1].span.present
    /\ article.metrics["like"][1][1].aria = <<>>
    /\ article.metrics["reply"] = <<<<>>, <<>>>>
    /\ article.metrics["retweet"] = <<<<>>, <<>>>>

\* the text that counter span shows
ShownCount(article) == article.metrics["like"][1][1].span.text

\* t read as the decimal numeral ip.fp or ip, of value num / 10^dec
Numeral(t) ==
    LET points == {i \in 1..Len(t) : t[i] = "."}
        k  == IF points = {} THEN Len(t) + 1 ELSE CHOOSE i \in points : TRUE
        ip == SubSeq(t, 1, k - 1)
        fp == SubSeq(t, k + 1, Len(t))
    IN  [ok  |-> /\ \A i \in 1..Len(ip) : IsDigit(ip[i])
                 /\ \A i \in 1..Len(fp) : IsDigit(fp[i])
                 /\ Len(ip) + Len(fp) >= 1,
         num |-> DigitsValue(ip) * Pow10(Len(fp)) + DigitsValue(fp),
         dec |-> Len(fp)]

Suffixes == {"K", "M", "B"}

SuffixTimes(c) == CASE c = "K" -> 1 [] c = "M" -> 1000 [] OTHER -> 1000000

C13_MetricRange ==
    (Extracted /\ xout.ok) =>
        /\ xout.replies.n >= 0
        /\ xout.retweets.n >= 0
        /\ xout.likes.n >= 0

-----------------------------------------------------------------------------
\* the ids of the elements of a scan that pass lines 136-137
ObservedIdSet(arts) ==
    {TweetId(arts[i]) : i \in {j \in 1..Len(arts) : Usable(arts[j])}}

\* C14: no accepted id exists before a company's scrape starts, the scrape
\* starts from the empty ledger, and a scan accepts every id it observes
\* that this run has not accepted yet, whatever earlier companies accepted.
C14_LedgerPerRun ==
    /\ [](pc \in {"setup", "login", "scrape"} => tweets_data = <<>>)
    /\ [][(pc = "scrape" /\ pc' = "loop") => tweets_data' = <<>>]_vars
    /\ [][ScanStep =>
            Ids(tweets_data') = Ids(tweets_data) \cup ObservedIdSet(articles')]_vars

\* the first company's run accepted both ids of the timeline, and the second
\* company's run has accepted both again
C14_Witness ==
    /\ ci = 2
    /\ summary[1].kind = "file"
    /\ summary[1].count = 2
    /\ Ids(tweets_data) = {1, 2}

-----------------------------------------------------------------------------
\* the record of a post of which only the permalink could be read
BareRecord(id) ==
    [ok |-> TRUE, id |-> id, text |-> "", timestamp |-> "",
     replies |-> Zero, retweets |-> Zero, likes |-> Zero, photos |-> <<>>]

\* C15: for a post on which no accessor call fails unexpectedly,
\* extract_tweet_data returns no record exactly when the post has no link
\* matching /status/<digits>; such a post is skipped and the scan goes on
\* with the elements after it; a post with the link but without text marker,
\* time element, metric element and image gives the record with text "",
\* timestamp "", the three metrics 0 and no media, and that record is kept.
C15_OnlyMissingIdFails ==
    [][ScanStep =>
         \A i \in 1..Len(articles') :
            \A a \in {articles'[i]} :
               (a.fault = "none" /\ a.testid = "tweet") =>
                  /\ extract_tweet_data(a).ok <=>
                        (a.href.present /\ a.href.digits # 0)
                  /\ ~extract_tweet_data(a).ok =>
                        /\ pc' = "stall"
                        /\ IsPrefix(tweets_data, tweets_data')
                        /\ \A j \in (i + 1)..Len(articles') :
                              Usable(articles'[j]) =>
                                 extract_tweet_data(articles'[j]).id
                                    \in Ids(tweets_data')
                  /\ (/\ extract_tweet_data(a).ok
                      /\ a.text = NoSuchElement /\ a.time = NoSuchElement
                      /\ a.metrics = NoMetrics /\ a.imgs = <<>>) =>
                        /\ extract_tweet_data(a) = BareRecord(a.href.digits)
                        /\ a.href.digits \notin Ids(tweets_data) =>
                              InSeq(BareRecord(a.href.digits), tweets_data')]_vars

\* a scan met a post without link and then a post with the link only: the
\* first was skipped, the second gave the record with the default values
C15_Witness ==
    /\ pc = "stall"
    /\ articles = <<NoLinkArticle, BareArticle>>
    /\ tweets_data = <<BareRecord(2)>>

-----------------------------------------------------------------------------
\* C16: however login_to_twitter ends for a company, that company does not
\* fail on account of it: the exception handled by main never comes from
\* the login step, and no summary row reports one.
C16_LoginNonFatal ==
    /\ pc = "except" => err # "login"
    /\ \A i \in 1..Len(summary) :
          ~(summary[i].kind = "Error" /\ summary[i].detail = "login")

-----------------------------------------------------------------------------
\* C17: every step of a run of scrape_tweets leaves the records accepted so
\* far where they are and as they are: the sequence before the step is a
\* prefix of the sequence after it, also when a scan shows an accepted id
\* with other field values.
C17_AppendOnly ==
    [][IsPrefix(tweets_data, tweets_data')]_vars

\* a scan added a record and showed the id of the first record, accepted in
\* an earlier cycle, with another text: the first record kept its text
C17_Witness ==
    /\ pc = "stall"
    /\ tweets_before >= 1
    /\ Len(tweets_data) > tweets_before
    /\ \E i \in 1..Len(articles) :
          /\ Usable(articles[i])
          /\ extract_tweet_data(articles[i]).id = tweets_data[1].id
          /\ extract_tweet_data(articles[i]).text # tweets_data[1].text

-----------------------------------------------------------------------------
\* C18: at every moment at most one browser instance is live, and a browser
\* is started for a company only when the browser of the company before it
\* has been quit.
C18_OneBrowserAtATime ==
    /\ Cardinality(live) <= 1
    /\ pc = "login" => live = {ci}

-----------------------------------------------------------------------------
\* the stall check that follows a scan (lines 145-162)
StallStep == pc = "stall"

\* C19: a scan notes how many records there were before it and leaves the
\* no-growth counter alone; the check after the scan sets the counter to 0
\* if the scan accepted a record, and otherwise to one more than it was,
\* unless that value reached the recovery threshold and the 'Show more'
\* click reset it; the height check leaves the counter alone.
C19_NoGrowthCounter ==
    [][/\ ScanStep =>
             /\ tweets_before' = Len(tweets_data)
             /\ no_new_tweets_count' = no_new_tweets_count
       /\ (StallStep /\ Len(tweets_data) > tweets_before) =>
             no_new_tweets_count' = 0
       /\ (StallStep /\ Len(tweets_data) = tweets_before) =>
             \/ no_new_tweets_count' = no_new_tweets_count + 1
             \/ /\ no_new_tweets_count + 1 >= ShowMoreThreshold
                /\ no_new_tweets_count' = 0
                /\ "click" \in issued'
       /\ pc = "height" => no_new_tweets_count' = no_new_tweets_count]_vars

\* two scans without a record, then a scan that accepted one: the counter
\* went from 2 to 0
C19_Witness ==
    /\ pc = "height"
    /\ scroll_attempts = 3
    /\ tweets_before = 0
    /\ Len(tweets_data) >= 1
    /\ no_new_tweets_count = 0

-----------------------------------------------------------------------------
\* C20, as claimed: the oscillating scroll is a recovery action that resets
\* the no-growth counter, so a cycle in which it was performed (the height
\* was found unchanged twice) does not end with the counter at the recovery
\* threshold or above it.
C20_RecoveryAsClaimed ==
    (pc = "loop" /\ scroll_attempts >= 1 /\ same_count >= 2) =>
        no_new_tweets_count < ShowMoreThreshold

\* C20, amended: when the incremented counter is 3 or more (5 and more
\* included) the 'Show more' control is looked up; if it is found it is
\* clicked and the counter is 0, if not the counter keeps its incremented
\* value and the loop goes on to the height check, or ends when the value is
\* 5 or more; below 3 nothing is looked up.  The height check never changes
\* the counter, whether it performs the oscillating scroll or not.
C20_Recovery ==
    [][/\ (StallStep /\ Len(tweets_data) = tweets_before) =>
             \A n \in {no_new_tweets_count + 1} :
                /\ n < ShowMoreThreshold =>
                      /\ no_new_tweets_count' = n
                      /\ issued' = issued
                      /\ pc' = "height"
                /\ n >= ShowMoreThreshold =>
                      \/ /\ issued' = issued \cup {"query", "click"}
                         /\ no_new_tweets_count' = 0
                         /\ pc' = "height"
                      \/ /\ issued' = issued \cup {"query"}
                         /\ no_new_tweets_count' = n
                         /\ pc' = IF n >= ExhaustionThreshold
                                  THEN "persist" ELSE "height"
                      \/ /\ issued' = issued \cup {"query"}
                         /\ no_new_tweets_count' = n
                         /\ pc' = "except"
       /\ pc = "height" =>
             /\ no_new_tweets_count' = no_new_tweets_count
             /\ pc' \in {"loop", "persist", "except"}]_vars

\* the third scan in a row without a record: the control was found and
\* clicked, and the counter is 0 again
C20_Witness ==
    /\ pc = "height"
    /\ scroll_attempts = 3
    /\ Len(tweets_data) = tweets_before
    /\ tweets_data = <<>>
    /\ "click" \in issued
    /\ no_new_tweets_count = 0

-----------------------------------------------------------------------------
(* Properties of the metric strategies and of the media list *)

\* what one selector strategy produces on its own: the count of the first
\* matched element that has a count text the conversion accepts
Yields(elements) ==
    LET idx == {i \in 1..Len(elements) :
                   /\ CountText(elements[i]) # <<>>
                   /\ ~ConvertCount(CountText(elements[i])).raised}
    IN  IF idx = {} THEN [some |-> FALSE]
        ELSE [some  |-> TRUE,
              count |-> ConvertCount(CountText(
                           elements[CHOOSE i \in idx :
                                       \A j \in idx : i <= j])).count]

\* C21: the value of a metric is the count of the first selector strategy,
\* in the listed order, that yields a count > 0, and it is 0 when no
\* strategy yields a positive count; the metrics whose selectors match
\* nothing stay 0.
C21_StrategyOrder ==
    (Extracted /\ xout.ok) =>
        LET sl  == xin.metrics["like"]
            pos == {k \in 1..Len(sl) :
                      Yields(sl[k]).some /\ Positive(Yields(sl[k]).count)}
        IN  /\ pos # {} =>
                  xout.likes =
                     Yields(sl[CHOOSE k \in pos : \A j \in pos : k <= j]).count
            /\ pos = {} => xout.likes = Zero
            /\ xout.replies = Zero
            /\ xout.retweets = Zero

\* p can be read off s from left to right: p[i] = s[f[i]] for increasing f
IsSubsequence(p, s) ==
    \E f \in [1..Len(p) -> 1..Len(s)] :
        /\ \A i \in 1..Len(p) : s[f[i]] = p[i]
        /\ \A i, j \in 1..Len(p) : i < j => f[i] < f[j]

\* the src attributes of the images of an article, in document order
SrcSeq(article) == [i \in 1..Len(article.imgs) |-> article.imgs[i].src]

\* C22: the photos of a record hold no locator twice, and they stand in the
\* order in which their <img> elements occur in the article, whichever
\* selector matched them.
C22_MediaOrder ==
    (Extracted /\ xout.ok) =>
        /\ \A i, j \in 1..Len(xout.photos) :
              i # j => xout.photos[i] # xout.photos[j]
        /\ IsSubsequence(xout.photos, SrcSeq(xin))

\* the locators the three content-media selectors contribute: the src of
\* every matched image that passes the test of line 286
ContentSrcs(article) ==
    {article.imgs[i].src : i \in
        {j \in 1..Len(article.imgs) :
            /\ \/ Contains(article.imgs[j].src, SelMediaHttps)
               \/ Contains(article.imgs[j].src, SelMedia)
               \/ article.imgs[j].photo
            /\ article.imgs[j].src # <<>>
            /\ ~Contains(Lower(article.imgs[j].src), StrProfile)
            /\ ~Contains(Lower(article.imgs[j].src), StrAvatar)}}

\* the non-empty src of the images inside a video player
VideoSrcs(article) ==
    {article.imgs[i].src : i \in
        {j \in 1..Len(article.imgs) :
            article.imgs[j].video /\ article.imgs[j].src # <<>>}}

\* C23: video thumbnails are collected only when the content-media selectors
\* contributed nothing; when they contributed a locator, the photos are
\* exactly their locators and none comes from a video player only.
C23_ThumbnailFallback ==
    (Extracted /\ xout.ok) =>
        /\ ContentSrcs(xin) # {} =>
              /\ Range(xout.photos) = ContentSrcs(xin)
              /\ Range(xout.photos) \cap (VideoSrcs(xin) \ ContentSrcs(xin)) = {}
        /\ ContentSrcs(xin) = {} => Range(xout.photos) = VideoSrcs(xin)

\* a post with a content image and a video thumbnail kept the first only
C23_Witness ==
    /\ Extracted
    /\ xout.ok
    /\ ContentSrcs(xin) = {UrlMediaA}
    /\ VideoSrcs(xin) = {UrlVideoThumb}
    /\ xout.photos = <<UrlMediaA>>

-----------------------------------------------------------------------------
(* Properties of save_to_csv *)

Saved == pc = "saved"

\* C24: save_to_csv writes one row per record, in the order of the records:
\* row i has the sequence number i and the id, text and metrics of record i,
\* and its local images are the paths of exactly the images whose download
\* succeeded, in the order of the photos; when it returns for n >= 1
\* records, n rows are written.
C24_OutputRows ==
    /\ (pc \in {"rows", "saved"} /\ xin # <<>>) =>
          /\ Len(xout.rows) <= Len(xin)
          /\ \A i \in 1..Len(xout.rows) :
                \A row \in {xout.rows[i]} :
                  /\ row.sno = i
                  /\ row.Tweet_ID = xin[i].id
                  /\ row.Tweet_Text = xin[i].text
                  /\ row.Likes = xin[i].likes
                  /\ row.Retweets = xin[i].retweets
                  /\ row.Replies = xin[i].replies
                  /\ \A j \in 1..Len(xin[i].photos) :
                        xout.downloaded[i][j] <=>
                           LocalPath(xin[i].id, j) \in Range(row.Local_Images)
                  /\ \A a, b \in 1..Len(row.Local_Images) :
                        /\ row.Local_Images[a].tweet = xin[i].id
                        /\ row.Local_Images[a].img \in 1..Len(xin[i].photos)
                        /\ a < b => row.Local_Images[a].img
                                       < row.Local_Images[b].img
    /\ (Saved /\ xin # <<>>) => Len(xout.rows) = Len(xin)

\* two records were saved; the first download of the first record failed,
\* and its row kept the path of the second image only
C24_Witness ==
    /\ Saved
    /\ Len(xin) = 2
    /\ Len(xout.rows) = 2
    /\ Len(xin[1].photos) = 2
    /\ xout.downloaded[1] = <<FALSE, TRUE>>
    /\ xout.rows[1].Local_Images = <<LocalPath(xin[1].id, 2)>>
    /\ xout.rows[2].sno = 2

\* the timestamps of the records that line 397 cannot parse
Unparsable == {"", "2024-02-30T10:00:00.000Z", "Mar 5"}

\* C25: a record whose timestamp cannot be normalised has a row all the
\* same, with the raw timestamp as its Date; a timestamp that can be
\* normalised is written as date and time of day; when save_to_csv returns,
\* every record has its row.
C25_TimestampKept ==
    /\ (pc \in {"rows", "saved"} /\ xin # <<>>) =>
          \A i \in 1..Len(xout.rows) :
            \A ts \in {xin[i].timestamp} :
              /\ xout.rows[i].Tweet_ID = xin[i].id
              /\ ts \in Unparsable => xout.rows[i].Date = ts
              /\ ~FromIso(ReplaceZ(ts)).ok => xout.rows[i].Date = ts
              /\ ts = "2024-01-01T00:00:00.000Z" =>
                    xout.rows[i].Date = "2024-01-01 00:00:00"
              /\ ts = "2024-03-05" => xout.rows[i].Date = "2024-03-05 00:00:00"
    /\ (Saved /\ xin # <<>>) => Len(xout.rows) = Len(xin)

\* a record dated 30 February was saved with that text as its Date, and the
\* record after it was saved too
C25_Witness ==
    /\ Saved
    /\ Len(xin) = 2
    /\ xin[1].timestamp = "2024-02-30T10:00:00.000Z"
    /\ Len(xout.rows) = 2
    /\ xout.rows[1].Date = "2024-02-30T10:00:00.000Z"
    /\ xout.rows[2].Date = "2023-12-31 23:59:59"

-----------------------------------------------------------------------------
(* Properties of the summary *)

\* the records of a list that have a non-empty photos list
RECURSIVE MediaBearing(_)
MediaBearing(tw) ==
    IF tw = <<>> THEN 0
    ELSE (IF Head(tw).photos # <<>> THEN 1 ELSE 0) + MediaBearing(Tail(tw))

\* C26: the summary row written for a company whose records were saved
\* carries the number of records scrape_tweets returned and the number of
\* those with photos; every other row carries 0 and 0; in every row
\* 0 <= Images Count <= Tweet Count.
C26_SummaryCounts ==
    [][\A k \in 1..Len(summary') :
          k > Len(summary) =>
             \A row \in {summary'[k]} :
                /\ row.kind = "file" =>
                      /\ tweets # <<>>
                      /\ row.count = Len(tweets)
                      /\ row.images = MediaBearing(tweets)
                /\ row.kind # "file" => row.count = 0 /\ row.images = 0
                /\ 0 <= row.images
                /\ row.images <= row.count]_vars

\* a company's two records, one of them with a photo, were counted
C26_Witness ==
    \E k \in 1..Len(summary) :
        /\ summary[k].kind = "file"
        /\ summary[k].count = 2
        /\ summary[k].images = 1

-----------------------------------------------------------------------------
(* Properties of merge_csv_files *)

Merged == pc = "merged" /\ xout.ok /\ xout.written

IdColumns == {"Tweet_ID", "tweet_id", "Tweet ID"}

\* the file is no summary file and its header has an identifier column
Accepted(file) == ~file.summary /\ file.header \cap IdColumns # {}

\* the Date value of a source row, under either name of the column
SourceDate(row) ==
    IF "Date" \in DOMAIN row THEN row["Date"]
    ELSE IF "timestamp" \in DOMAIN row THEN row["timestamp"]
    ELSE ""

\* the rows read from the accepted files, as pairs of handle and date
SourceRows(fs) ==
    {<<f, r>> \in (1..Len(fs)) \X (1..MaxRows + 2) :
        Accepted(fs[f]) /\ r <= fs[f].readable}

SourceId(row) ==
    IF "Tweet_ID" \in DOMAIN row THEN row["Tweet_ID"]
    ELSE IF "tweet_id" \in DOMAIN row THEN row["tweet_id"]
    ELSE row["Tweet ID"]

\* the identifiers the files carry
FileIds == {"11", "12", "13", "21", "22", "23", "24"}

\* C28: a file is merged exactly when its header has an identifier column
\* under one of the accepted names, and every merged row carries in Tweet_ID
\* the identifier of its source row.
C28_IdReconciliation ==
    Merged =>
        \A out \in {xout.all_tweets} :
          /\ Len(out) = Cardinality(SourceRows(xin))
          /\ \A id \in FileIds :
                Cardinality({i \in 1..Len(out) : out[i].Tweet_ID = id})
                = Cardinality({p \in SourceRows(xin) :
                                 SourceId(xin[p[1]].rows[p[2]]) = id})

-----------------------------------------------------------------------------
(* Properties of process_tweet *)

Processed == pc = "processed"

\* the genders of the images classified as showing a human
HumanGenders(images) ==
    {images[i].gender : i \in {j \in 1..Len(images) : images[j].human}}

\* C29: for a post with images, human_present is 'yes' exactly when some
\* image shows a human; detected_gender is 'both' exactly when a human image
\* is classified 'both' or 'male' and 'female' both occur among the human
\* images, otherwise 'male' if one is 'male', otherwise 'female' if one is
\* 'female', otherwise 'unknown'.
C29_Aggregation ==
    (Processed /\ Len(xin) > 0) =>
        \A g \in {HumanGenders(xin)} :
          /\ xout.human_present = "yes" <=> \E i \in 1..Len(xin) : xin[i].human
          /\ xout.human_present \in {"yes", "no"}
          /\ xout.detected_gender = "both" <=>
                ("both" \in g \/ {"male", "female"} \subseteq g)
          /\ xout.detected_gender = "male" <=>
                ("male" \in g /\ "both" \notin g /\ "female" \notin g)
          /\ xout.detected_gender = "female" <=>
                ("female" \in g /\ "both" \notin g /\ "male" \notin g)
          /\ xout.detected_gender = "unknown" <=>
                g \cap {"male", "female", "both"} = {}

\* a post with a 'male' image and a 'both' image was given 'both'
C29_Witness ==
    /\ Processed
    /\ Len(xin) = 2
    /\ HumanGenders(xin) = {"male", "both"}
    /\ xout.human_present = "yes"
    /\ xout.detected_gender = "both"

-----------------------------------------------------------------------------
(* Properties of the record ceiling *)

\* C30: a scan starts only with fewer than TWEET_LIMIT records and fewer
\* than max_scroll_attempts scrolls, every usable element of a started scan
\* is processed, the records change in a scan only, and so the number of
\* records is at most TWEET_LIMIT - 1 plus the number of elements of the
\* last scan.
C30_CeilingBetweenCycles ==
    [][/\ tweets_data' # tweets_data => ScanStep
       /\ ScanStep =>
             /\ Len(tweets_data) < TWEET_LIMIT
             /\ scroll_attempts < max_scroll_attempts
             /\ \A i \in 1..Len(articles') :
                   Usable(articles'[i]) =>
                      TweetId(articles'[i]) \in Ids(tweets_data')
             /\ Len(tweets_data') <= Len(tweets_data) + Len(articles')
             /\ Len(tweets_data') <= TWEET_LIMIT - 1 + Len(articles')]_vars

\* scrape_tweets returned more records than TWEET_LIMIT
C30_Witness ==
    /\ Returned
    /\ wait_result = "found"
    /\ Len(tweets_data) > TWEET_LIMIT


\* a step of the height check of lines 164-182
HeightStep == pc = "height" /\ pc' # "height"

\* the calls of lines 165-177 when all three measurements are made
ThreeMeasurements ==
    <<"height", "sleep_2", "height",
      "scroll_80", "sleep_1", "scroll_bottom", "sleep_1", "height">>

\* C31: the height check ends the loop only when three measurements of the
\* same cycle equalled last_height, the second made after a wait of two
\* scroll pauses and the third after a scroll to 80% of the height and back
\* to the bottom; with three equal measurements it ends the loop whatever
\* no_new_tweets_count is and whether or not the scan accepted a record,
\* returning the records accepted so far; otherwise last_height becomes the
\* measurement that differed and the loop goes on.
C31_EndOfPageExit ==
    [][HeightStep =>
          /\ pc' \in {"persist", "loop", "except"}
          /\ pc' = "persist" =>
                /\ same_count' = 3
                /\ commands' = commands \o ThreeMeasurements
                /\ last_height' = last_height
                /\ tweets' = tweets_data
                /\ no_new_tweets_count' = no_new_tweets_count
          /\ pc' = "loop" =>
                /\ same_count' < 3
                /\ last_height' # last_height
                /\ tweets_data' = tweets_data
          /\ same_count' = 3 => pc' = "persist"]_vars

\* the end-of-page exit taken in a cycle that accepted a new record
C31_Witness ==
    /\ Returned
    /\ same_count = 3
    /\ Len(commands) = Len(ScanCommands) + Len(ThreeMeasurements)
    /\ Len(tweets_data) > tweets_before
    /\ no_new_tweets_count = 0
    /\ tweets = tweets_data

\* the end-of-page exit taken while the no-growth counter is positive
C31_WitnessStalled ==
    /\ Returned
    /\ same_count = 3
    /\ no_new_tweets_count > 0
    /\ Len(tweets_data) = tweets_before


\* the calls of lines 124-130 in their order
ScrollPauseScan == <<"scroll_bottom", "sleep_1.5", "find_articles">>

\* C32: every scan, the first one after the load included, is the third call
\* of its cycle, after one scroll to the bottom and one settle pause of 1.5
\* scroll pauses; scroll_attempts grows by exactly one in the cycle of each
\* scan and changes in no other way, so it equals the number of scans
\* started (it is one ahead only when the scroll of that cycle raised and
\* the function was left) and never exceeds max_scroll_attempts.
C32_ScrollPrecedesScan ==
    /\ [](/\ scroll_attempts <= max_scroll_attempts
          /\ \/ scroll_attempts = scans_started
             \/ /\ Raised
                /\ commands = <<"scroll_bottom">>
                /\ scroll_attempts = scans_started + 1)
    /\ [][scans_started' # scans_started =>
             /\ pc = "loop"
             /\ scans_started' = scans_started + 1
             /\ scroll_attempts' = scroll_attempts + 1
             /\ commands' = ScrollPauseScan]_vars
    /\ [][scroll_attempts' # scroll_attempts =>
             /\ pc = "loop"
             /\ scroll_attempts < max_scroll_attempts
             /\ scroll_attempts' = scroll_attempts + 1]_vars

\* the last scan the ceiling allows has been made, after its scroll and pause
C32_Witness ==
    /\ pc = "stall"
    /\ commands = ScrollPauseScan
    /\ scans_started = max_scroll_attempts
    /\ scroll_attempts = max_scroll_attempts

\* the first scan after a successful load
C32_WitnessFirstScan ==
    /\ pc = "stall"
    /\ wait_result = "found"
    /\ commands = ScrollPauseScan
    /\ scans_started = 1
    /\ scroll_attempts = 1


\* an accessor call of the scroll loop raises outside the handler of lines
\* 135-143
LoopFault == pc \in {"loop", "stall", "height"} /\ pc' = "except"

\* the scroll loop was left by an exception after a record had been accepted
FaultAfterRecords == err = "scrape" /\ tweets_data # <<>>

\* C33: when an accessor call raises inside the scroll loop, outside the
\* per-element handler, after at least one record has been accepted, the
\* exception reaches main's handler with nothing returned: no file is
\* written for the company, and its only summary row is the error row with
\* record count 0 and image count 0.
C33_PartialResultsDiscarded ==
    /\ [][LoopFault =>
             /\ err' = "scrape"
             /\ UNCHANGED <<tweets, files, summary>>]_vars
    /\ [][(pc = "except" /\ FaultAfterRecords) =>
             /\ pc' = "finally"
             /\ files' = files
             /\ summary' = Append(summary,
                              [company |-> ci, kind |-> "Error",
                               detail |-> "scrape", count |-> 0,
                               images |-> 0])]_vars
    /\ []((FaultAfterRecords /\ pc \in {"except", "finally", "delay"}) =>
             FilesOf(ci) = {})
    /\ []((FaultAfterRecords /\ pc \in {"finally", "delay"}) =>
             /\ Len(summary) = ci
             /\ summary[ci].kind = "Error"
             /\ summary[ci].count = 0
             /\ summary[ci].images = 0)

\* a record with an image was accepted, a later cycle raised, and the
\* company ends with its error row and no file
C33_Witness ==
    /\ pc = "delay"
    /\ FaultAfterRecords
    /\ ImageCount(tweets_data) >= 1
    /\ scroll_attempts >= 2
    /\ FilesOf(ci) = {}
    /\ summary[ci] = SummaryRow(ci, "Error", "scrape", 0, 0)

=============================================================================
